---- MODULE Spec2Model ----
(***************************************************************************)
(* The two data-collection coordinators of vm-orchestrate-datasets:        *)
(*   desktop : src/server/ubuntu_desktop/server.py (DataCollectionServer)  *)
(*   daita   : src/server/ubuntu_daita/server.py   (module-level handlers) *)
(* Every handler runs its state-touching body under one lock, so a handler *)
(* is one atomic action.  `last` is the request just served and its reply. *)
(***************************************************************************)
EXTENDS Integers, Sequences, FiniteSets, TLC

VARIABLES
    program,             \* which coordinator was booted: "desktop" | "daita"
    config,              \* [daita, samples]: client.daita and server.samples
    vpn_server_list,     \* sequence of relay names
    url2line,            \* function URL -> line index (0-based)
    accounts,            \* credential pool (list; pop() takes the last one)
    allocated_accounts,  \* function worker id -> credential
    done_dict,           \* done_dict[vpn][url][mode] = accepted samples
    pending_visits,      \* list of [url, vpn, daita] records
    unique_clients,      \* set of worker ids seen by /server and GET /work
    last_update_time,    \* logical timestamp of the last accepted POST
    disk,                \* data directory: <<vpn, line, mode>> -> set of files
    last,                \* the request last served, with its reply
    tally,               \* history: what the POSTs since the boot on the fresh
                         \* tree did (no handler reads it)
    lock,                \* self.lock: the thread that holds it, or Free
    threads,             \* request threads: thread -> [pc, req]
    worker               \* the state of one worker (client) process

vars == <<program, config, vpn_server_list, url2line, accounts,
          allocated_accounts, done_dict, pending_visits, unique_clients,
          last_update_time, disk, last, tally, lock, threads, worker>>

\* the state of a coordinator and its history
server_vars == <<program, config, vpn_server_list, url2line, accounts,
                 allocated_accounts, done_dict, pending_visits, unique_clients,
                 last_update_time, disk, last, tally>>

\* what the handlers, taken as atomic steps, leave alone
aux == <<lock, threads, worker>>

----------------------------------------------------------------------------
(* Bounds of the explored configurations and inputs.                       *)

MaxRelays == 2      \* relays in vpnlist
MaxUrls == 2        \* URLs in urllist
MaxAccounts == 2    \* credentials in the database
MaxConfig == 4      \* samples * |cells| + |accounts| of a configuration
MaxFail == 1        \* sample stems left on disk by failed three-file writes
MaxDaitaFail == 3   \* the same, between the boots of the DAITA coordinator
MaxPosts == 3       \* valid submissions taken in by the request threads
VisitCount == 2     \* visit_count of a worker (10 in the clients' defaults)
MaxAttempts == 2    \* attempts of retry_with_backoff (5 in the desktop client)
MaxUrlLines == 3    \* lines of a URL file
MaxStem == 3        \* highest sample number of a file in a directory

RelayNames == <<"r1", "r2", "r3", "r4">>
UrlNames == <<"https://a.test", "https://b.test", "https://c.test", "https://d.test">>
AccountNames == <<"c1", "c2", "c3", "c4">>

Min(a, b) == IF a < b THEN a ELSE b

Prefix(s, n) == SubSeq(s, 1, Min(n, Len(s)))

Range(s) == {s[i] : i \in DOMAIN s}

Workers == {"w1", "w2"}

\* request argument absent: request.args.get gives None, `not x` is true
Missing == ""

\* the string a worker sends as its relay before it has one
NoServer == "None"

\* a relay / URL / mode that is in no configuration
UnknownRelay == "rX"
UnknownUrl == "https://x.test"
UnknownMode == "x"

\* a mode string that is no mode of any configuration and that pathlib joins
\* to the directory of mode "off": Path(datadir) / vpn / "0_off/" is
\* datadir/vpn/0_off
AliasMode == "off/"

UrlSet == Range(UrlNames) \cup {UnknownUrl}
ModeSet == {"on", "off", UnknownMode, AliasMode}

RECURSIVE Perms(_)
Perms(S) ==
    IF S = {} THEN {<<>>}
    ELSE UNION {{Append(p, x) : p \in Perms(S \ {x})} : x \in S}

----------------------------------------------------------------------------
(* Configuration and boot                                                  *)

\* server.py:206-210, 252-253, 310-311
DaitaModes(cfg) == IF cfg.daita = "on" THEN <<"on", "off">> ELSE <<"off">>

\* the lines a URL file is made of here: two HTTPS URLs, one of them also
\* with blanks around it, a URL that is not HTTPS and a blank line
UrlLines == {"https://a.test", "https://b.test", " https://a.test ", "http://c.test", " "}

\* server.py:169: line.strip() on each of UrlLines
Strip(line) ==
    CASE line = " https://a.test " -> "https://a.test"
      [] line = " " -> ""
      [] OTHER -> line

\* server.py:169: urls = [line.strip() for line in f if line.strip()]
ReadUrls(file) ==
    LET stripped == [i \in DOMAIN file |-> Strip(file[i])]
    IN  SelectSeq(stripped, LAMBDA u : u # "")

HasDuplicatesNever(urls) == FALSE

\* server.py:171: len(urls) != len(set(urls))
HasDuplicates(urls) == Len(urls) # Cardinality(Range(urls))

\* server.py:176: url.startswith("https://"), on the stripped lines of UrlLines
StartsWithHttps(url) == url \in {"https://a.test", "https://b.test"}

\* server.py:171-178: the two checks that end the boot with sys.exit(1)
LoadUrlsExits(urls) == HasDuplicates(urls) \/ \E i \in DOMAIN urls : ~StartsWithHttps(urls[i])

\* server.py:166-180: url2line = {url: i for i, url in enumerate(urls)}
LoadUrls(urls) == [u \in Range(urls) |-> CHOOSE i \in 0..(Len(urls) - 1) : urls[i + 1] = u]

\* URL list in line order (dict insertion order)
UrlSeq(u2l) ==
    [i \in 1..Cardinality(DOMAIN u2l) |-> CHOOSE u \in DOMAIN u2l : u2l[u] = i - 1]

\* server.py:212-225: the fresh directory tree, one empty directory per cell
FreshTree(vpns, u2l, modes) ==
    [d \in {<<v, u2l[u], m>> : v \in Range(vpns), u \in DOMAIN u2l, m \in Range(modes)}
        |-> {}]

File(stem, ext) == [stem |-> stem, ext |-> ext]

FilesWithExt(dir, ext) == {f \in dir : f.ext = ext}

CountWitnessPng(dir) == Cardinality(FilesWithExt(dir, "png"))

\* server.py:287: count = len(list(subdir.glob("*.json")))
CountWitness(dir) == Cardinality(FilesWithExt(dir, "json"))

\* server.py:249-293
LoadProgress(tree, vpns, u2l, modes) ==
    [vpn \in Range(vpns) |->
        [url \in DOMAIN u2l |->
            [mode \in Range(modes) |->
                IF <<vpn, u2l[url], mode>> \in DOMAIN tree
                THEN CountWitness(tree[<<vpn, u2l[url], mode>>])
                ELSE 0]]]

Visit(url, vpn, daita) == [url |-> url, vpn |-> vpn, daita |-> daita]

\* all cells in the order of the comprehension of server.py:312-319:
\* for vpn in done_dict, for url in done_dict[vpn], for daita_mode in daita_modes
CellSeq(vpns, urls, modes) ==
    [k \in 1..(Len(vpns) * Len(urls) * Len(modes)) |->
        Visit(urls[(((k - 1) \div Len(modes)) % Len(urls)) + 1],
              vpns[((k - 1) \div (Len(modes) * Len(urls))) + 1],
              modes[((k - 1) % Len(modes)) + 1])]

\* done_dict[vpn][url].get(daita, 0)
Counter(dd, vpn, url, daita) ==
    IF daita \in DOMAIN dd[vpn][url] THEN dd[vpn][url][daita] ELSE 0

\* server.py:317-318: done_dict[vpn][url][daita_mode] < samples
IsOpenUpTo(dd, v, samples) == Counter(dd, v.vpn, v.url, v.daita) <= samples

IsOpen(dd, v, samples) == Counter(dd, v.vpn, v.url, v.daita) < samples

\* server.py:308-320
InitVisitList(dd, vpns, u2l, cfg) ==
    SelectSeq(CellSeq(vpns, UrlSeq(u2l), DaitaModes(cfg)),
              LAMBDA v : IsOpen(dd, v, cfg.samples))

\* the configurations explored: relay list, URL list, client.daita, samples
\* and credential database, of bounded total size
\* a JSON object: dict.get(key, default)
Get(d, key, default) == IF key \in DOMAIN d THEN d[key] ELSE default

\* dict.setdefault(key, default)
SetDefault(d, key, default) == IF key \in DOMAIN d THEN d ELSE d @@ (key :> default)

\* server.py:76-85
DefaultTiming ==
    [grace |-> 5, min_wait |-> 20, max_wait |-> 30,
     post_browser_pre_capture_wait |-> 5, post_packet_pre_visit_wait |-> 5]

\* server.py:86-97 (the daita key is config.daita of this model)
DefaultClient == [display_size |-> <<1920, 1080>>, fullscreen |-> TRUE]

\* server.py:41-98 on the parsed configuration file: a section that is left
\* out gets its default, a section that is there is taken as it is
LoadConfig(file) ==
    SetDefault(SetDefault(file, "timing", DefaultTiming), "client", DefaultClient)

\* a configuration file with the required server section and nothing else
\* (the required keys are vpn_server_list, url2line, accounts, config.samples
\* of this model)
PlainFile == "server" :> <<>>

Configs ==
    {c \in [nr : 1..MaxRelays, nu : 1..MaxUrls, daita : {"on", "off"},
            samples : 1..MaxConfig, na : 0..MaxAccounts] :
        c.samples * c.nr * c.nu * (IF c.daita = "on" THEN 2 ELSE 1) + c.na <= MaxConfig}

NoReply == [op |-> "boot", status |-> 0]

\* threading.Lock() at server.py:30 is created unlocked
Free == "free"

\* between two handlers taken as atomic steps the lock is free and no thread
\* is inside a handler; no worker process is looked at
Quiet == lock = Free /\ threads = <<>> /\ worker = <<>>

\* accepted: POSTs answered 200 "Saved sample"; partial: POSTs answered 500
\* whose write left at least one file; late: those that left the .json too
NoPosts == [accepted |-> 0, partial |-> 0, late |-> 0]

\* server.py:103-121 on a data directory that does not exist yet
BootDesktopWith(c, file) ==
    LET cfg == [daita |-> c.daita, samples |-> c.samples,
                file |-> LoadConfig(file)]
        vpns == Prefix(RelayNames, c.nr)
        u2l == LoadUrls(Prefix(UrlNames, c.nu))
        tree == FreshTree(vpns, u2l, DaitaModes(cfg))
        dd == LoadProgress(tree, vpns, u2l, DaitaModes(cfg))
    IN  /\ program = "desktop"
        /\ config = cfg
        /\ vpn_server_list = vpns
        /\ url2line = u2l
        /\ disk = tree
        /\ done_dict = dd
        /\ accounts \in Perms(Range(Prefix(AccountNames, c.na)))
        /\ allocated_accounts = <<>>
        /\ pending_visits = InitVisitList(dd, vpns, u2l, cfg)
        /\ unique_clients = {}
        /\ last_update_time = 0
        /\ last = NoReply
        /\ tally = NoPosts

BootDesktop == \E c \in Configs : BootDesktopWith(c, PlainFile)

\* the coordinator is up and no request has arrived
InitDesktop == BootDesktop /\ Quiet

----------------------------------------------------------------------------
(* Desktop coordinator: GET /setup                                         *)

PopAccountKeep(accts) == [account |-> accts[Len(accts)], rest |-> accts]

\* server.py:341: account = self.accounts.pop()
PopAccount(accts) ==
    [account |-> accts[Len(accts)], rest |-> SubSeq(accts, 1, Len(accts) - 1)]

HasAccountNever(allocated, id) == FALSE

\* server.py:334: id in self.allocated_accounts
HasAccount(allocated, id) == id \in DOMAIN allocated

\* server.py:342: self.allocated_accounts[id] = account
AssignNone(allocated, id, account) == allocated

Assign(allocated, id, account) ==
    [w \in DOMAIN allocated \cup {id} |-> IF w = id THEN account ELSE allocated[w]]

SetupReply(id, status, account) ==
    [op |-> "setup", id |-> id, status |-> status, account |-> account]

\* server.py:348-365: the client parameters of a 200 reply, each read where
\* the handler reads it
SetupPayload(cfg) ==
    [visit_count |-> Get(cfg["server"], "visits", 10),
     grace |-> Get(cfg["timing"], "grace", 1),
     min_wait |-> Get(cfg["timing"], "min_wait", 2),
     max_wait |-> Get(cfg["timing"], "max_wait", 30),
     display_size |-> Get(cfg["server"], "display_size", <<1920, 1080>>),
     fullscreen |-> Get(cfg["server"], "fullscreen", TRUE),
     post_browser_pre_capture_wait |-> Get(cfg, "post_browser_pre_capture_wait", 5),
     post_packet_pre_visit_wait |-> Get(cfg, "post_packet_pre_visit_wait", 5)]

\* server.py:346-366
SetupOk(id, account, cfg) ==
    [op |-> "setup", id |-> id, status |-> 200, account |-> account,
     payload |-> SetupPayload(cfg)]

\* server.py:141-160: GET / returns a constant page
hello ==
    /\ program = "desktop"
    /\ last' = [op |-> "hello", status |-> 200]
    /\ UNCHANGED <<program, config, vpn_server_list, url2line, accounts,
                   allocated_accounts, done_dict, pending_visits, unique_clients,
                   last_update_time, disk, tally>>

\* server.py:322-366
setup_client(id) ==
    /\ program = "desktop"
    /\ IF id = Missing
       THEN /\ last' = SetupReply(id, 400, "-")
            /\ UNCHANGED <<accounts, allocated_accounts>>
       ELSE IF HasAccount(allocated_accounts, id)
       THEN /\ last' = SetupOk(id, allocated_accounts[id], config.file)
            /\ UNCHANGED <<accounts, allocated_accounts>>
       ELSE IF accounts = <<>>
       THEN /\ last' = SetupReply(id, 400, "-")
            /\ UNCHANGED <<accounts, allocated_accounts>>
       ELSE LET p == PopAccount(accounts)
            IN  /\ accounts' = p.rest
                /\ allocated_accounts' = Assign(allocated_accounts, id, p.account)
                /\ last' = SetupOk(id, p.account, config.file)
    /\ UNCHANGED <<program, config, vpn_server_list, url2line, done_dict,
                   pending_visits, unique_clients, last_update_time, disk, tally>>

----------------------------------------------------------------------------
(* Desktop coordinator: GET /status                                        *)

\* server.py:377-381: sum of all counters of done_dict
TotalCollected(dd) ==
    LET cells == {<<vpn, url, mode>> \in (DOMAIN dd) \X UrlSet \X ModeSet :
                     url \in DOMAIN dd[vpn] /\ mode \in DOMAIN dd[vpn][url]}
        RECURSIVE Sum(_)
        Sum(S) == IF S = {} THEN 0
                  ELSE LET c == CHOOSE c \in S : TRUE
                       IN  dd[c[1]][c[2]][c[3]] + Sum(S \ {c})
    IN  Sum(cells)

\* server.py:388-391
TotalToCollect(cfg, u2l, vpns) ==
    cfg.samples * Cardinality(DOMAIN u2l) * Len(vpns)
        * (IF cfg.daita = "on" THEN 2 ELSE 1)

\* server.py:368-398
get_status ==
    /\ program = "desktop"
    /\ last' = [op |-> "status", status |-> 200,
                total_to_collect |-> TotalToCollect(config, url2line, vpn_server_list),
                total_collected |-> TotalCollected(done_dict),
                clients |-> unique_clients,
                allocated |-> Cardinality(DOMAIN allocated_accounts),
                pool |-> Len(accounts)]
    /\ UNCHANGED <<program, config, vpn_server_list, url2line, accounts,
                   allocated_accounts, done_dict, pending_visits, unique_clients,
                   last_update_time, disk, tally>>

----------------------------------------------------------------------------
(* Desktop coordinator: GET /server                                        *)

AvailableAllPairs(pending) ==
    {<<v, m>> : v \in Range(vpn_server_list), m \in Range(DaitaModes(config))}

\* server.py:420: available = {(v["vpn"], v["daita"]) for v in self.pending_visits}
Available(pending) == {<<pending[i].vpn, pending[i].daita>> : i \in DOMAIN pending}

ServerChoicesDrop(pending, current_server, current_daita) ==
    Available(pending) \ {<<current_server, current_daita>>}

ServerChoicesTwo(pending, current_server, current_daita) ==
    LET available == Available(pending)
        current == <<current_server, current_daita>>
    IN  IF Cardinality(available) > 2 /\ current \in available
        THEN available \ {current}
        ELSE available

\* server.py:423-425: drop the current pair when there is another option
ServerChoices(pending, current_server, current_daita) ==
    LET available == Available(pending)
        current == <<current_server, current_daita>>
    IN  IF Cardinality(available) > 1 /\ current \in available
        THEN available \ {current}
        ELSE available

\* the worker id is kept in unique_clients; the reply record keeps only whether
\* the request carried one
ServerReply(id, server, daita, status, pair) ==
    [op |-> "server", has_id |-> id # Missing, server |-> server, daita |-> daita,
     status |-> status, vpn |-> pair[1], mode |-> pair[2]]

NoPair == <<"-", "-">>

\* server.py:400-435
get_vpn_server(client_id, current_server, current_daita) ==
    /\ program = "desktop"
    /\ IF client_id = Missing \/ current_server = Missing \/ current_daita = Missing
       THEN /\ last' = ServerReply(client_id, current_server, current_daita, 400, NoPair)
            /\ UNCHANGED unique_clients
       ELSE /\ unique_clients' = unique_clients \cup {client_id}
            /\ LET available == ServerChoices(pending_visits, current_server, current_daita)
               IN  IF available = {}
                   THEN last' = ServerReply(client_id, current_server, current_daita,
                                            400, NoPair)
                   ELSE \E assigned_server \in available :
                            last' = ServerReply(client_id, current_server, current_daita,
                                                200, assigned_server)
    /\ UNCHANGED <<program, config, vpn_server_list, url2line, accounts,
                   allocated_accounts, done_dict, pending_visits,
                   last_update_time, disk, tally>>

----------------------------------------------------------------------------
(* Desktop coordinator: GET /work                                          *)

WorkChoicesAnyMode(pending, requested_server, requested_daita) ==
    SelectSeq(pending, LAMBDA v : v.vpn = requested_server)

\* server.py:462-463: the pending visits of the requested pair
WorkChoices(pending, requested_server, requested_daita) ==
    SelectSeq(pending,
              LAMBDA v : v.vpn = requested_server /\ v.daita = requested_daita)

WorkReply(id, server, daita, status, v) ==
    [op |-> "work", has_id |-> id # Missing, server |-> server, daita |-> daita,
     status |-> status, url |-> v.url, vpn |-> v.vpn, mode |-> v.daita]

NoVisit == Visit("-", "-", "-")

\* server.py:437-485
get_work(client_id, requested_server, requested_daita) ==
    /\ program = "desktop"
    /\ IF client_id = Missing \/ requested_server = Missing \/ requested_daita = Missing
       THEN /\ last' = WorkReply(client_id, requested_server, requested_daita, 400, NoVisit)
            /\ UNCHANGED unique_clients
       ELSE IF requested_server = NoServer
       THEN /\ last' = WorkReply(client_id, requested_server, requested_daita, 409, NoVisit)
            /\ UNCHANGED unique_clients
       ELSE /\ unique_clients' = unique_clients \cup {client_id}
            /\ LET visits == WorkChoices(pending_visits, requested_server, requested_daita)
               IN  IF visits = <<>>
                   THEN last' = WorkReply(client_id, requested_server, requested_daita,
                                          409, NoVisit)
                   ELSE \E i \in DOMAIN visits :
                            last' = WorkReply(client_id, requested_server,
                                              requested_daita, 200, visits[i])
    /\ UNCHANGED <<program, config, vpn_server_list, url2line, accounts,
                   allocated_accounts, done_dict, pending_visits,
                   last_update_time, disk, tally>>

----------------------------------------------------------------------------
(* Desktop coordinator: POST /work                                         *)

KiB == 1024

\* server.py:530: pcap_size < 10 * 1024 or pcap_size > 3000 * 1024
MinPcap == 10 * KiB
MaxPcap == 3000 * KiB

\* server.py:533: png_size < 10 * 1024
MinPng == 10 * KiB

SizeCheckNoPng(pcap_size, png_size) ==
    IF pcap_size < MinPcap \/ pcap_size > MaxPcap THEN "pcap" ELSE "ok"

SizeCheckNoMax(pcap_size, png_size) ==
    IF pcap_size < MinPcap THEN "pcap"
    ELSE IF png_size < MinPng THEN "png"
    ELSE "ok"

\* server.py:530-535
SizeCheck(pcap_size, png_size) ==
    IF pcap_size < MinPcap \/ pcap_size > MaxPcap THEN "pcap"
    ELSE IF png_size < MinPng THEN "png"
    ELSE "ok"

AlreadyDoneLate(current_count, max_samples) == current_count > max_samples

\* server.py:541: current_count >= max_samples
AlreadyDone(current_count, max_samples) == current_count >= max_samples

Stems(dir) == {f.stem : f \in dir}

SetMax(S) == CHOOSE x \in S : \A y \in S : y <= x

GetFreeSampleNumNoInc(tree, d) ==
    IF d \notin DOMAIN tree \/ Stems(tree[d]) = {} THEN 0
    ELSE SetMax(Stems(tree[d]))

\* server.py:587-604: max(existing) + 1 if existing else 0; a directory that
\* does not exist globs to nothing
GetFreeSampleNum(tree, d) ==
    IF d \notin DOMAIN tree \/ Stems(tree[d]) = {} THEN 0
    ELSE SetMax(Stems(tree[d])) + 1

\* server.py:550-552, 596: the mode as it stands in the path of the directory,
\* Path(datadir) / vpn / f"{site_num}_{daita}": a trailing slash is dropped
DirMode(daita) == IF daita = AliasMode THEN "off" ELSE daita

\* the three files in the order server.py:557-559 writes them
WriteOrder == <<"png", "pcap", "json">>

\* the first `written` files of sample `n`
Written(n, written) == {File(n, WriteOrder[i]) : i \in 1..written}

RemoveFirstPutsBack(s, x) == Append(s, x)

\* server.py:571-572: self.pending_visits.remove(visit), guarded by `in`
RemoveFirst(s, x) ==
    IF \E i \in DOMAIN s : s[i] = x
    THEN LET k == CHOOSE i \in DOMAIN s : s[i] = x /\ \A j \in 1..(i - 1) : s[j] # x
         IN  SubSeq(s, 1, k - 1) \o SubSeq(s, k + 1, Len(s))
    ELSE s

RecordAcceptedLate(dd, pending, vpn, url, daita, current_count, max_samples) ==
    LET dd2 == [dd EXCEPT ![vpn][url] = (daita :> (current_count + 1)) @@ @]
    IN  [done |-> dd2,
         pending |-> IF dd2[vpn][url][daita] > max_samples
                     THEN RemoveFirst(pending, Visit(url, vpn, daita))
                     ELSE pending]

\* server.py:566-575: count the sample, drop the cell from pending when full
RecordAccepted(dd, pending, vpn, url, daita, current_count, max_samples) ==
    LET dd2 == [dd EXCEPT ![vpn][url] = (daita :> (current_count + 1)) @@ @]
    IN  [done |-> dd2,
         pending |-> IF dd2[vpn][url][daita] >= max_samples
                     THEN RemoveFirst(pending, Visit(url, vpn, daita))
                     ELSE pending]

RECURSIVE SumStems(_, _)
SumStems(tree, D) ==
    IF D = {} THEN 0
    ELSE LET d == CHOOSE d \in D : TRUE
         IN  Cardinality(Stems(tree[d])) + SumStems(tree, D \ {d})

\* sample stems on disk that no counter accounts for
Garbage == SumStems(disk, DOMAIN disk) - TotalCollected(done_dict)

\* bound on the failed writes explored: at most MaxFail stems of garbage, and
\* the configuration with them (a stem of garbage weighs as one more sample
\* of every cell) stays below MaxConfig
FailureBudget ==
    /\ Garbage < MaxFail
    /\ TotalToCollect(config, url2line, vpn_server_list) + Len(accounts)
         + Cardinality(DOMAIN allocated_accounts)
         + (Garbage + 1) * Cardinality(DOMAIN disk) < MaxConfig

\* written, raised: the files this handler left in the directory and whether
\* one of its writes raised
PostReply(form, url, vpn, daita, pcap_size, png_size, status, result, n, written, raised) ==
    [op |-> "post", form |-> form, url |-> url, vpn |-> vpn, daita |-> daita,
     pcap_size |-> pcap_size, png_size |-> png_size,
     status |-> status, result |-> result, sample |-> n,
     written |-> written, raised |-> raised]

\* a refusal before the write: no file, no exception in the write
Refused(form, url, vpn, daita, pcap_size, png_size, status, result) ==
    PostReply(form, url, vpn, daita, pcap_size, png_size, status, result, -1,
              0, FALSE)

WriteRaisedNever(written, raised) == FALSE

\* server.py:556-563: the except branch is taken iff a write raised
WriteRaised(written, raised) == raised \/ written < 3

\* history of a failed write that left `written` files
TallyFailed(t, written) ==
    [t EXCEPT !.partial = @ + (IF written > 0 THEN 1 ELSE 0),
              !.late = @ + (IF written = 3 THEN 1 ELSE 0)]

\* server.py:487-585.  form: "ok" | "missing" (a required field is absent) |
\* "badhex" (png_data or pcap_data is not hex); written: the number of files
\* the three-file write left in the directory, 3 when it succeeded, and
\* raised: whether it raised (a write can raise after creating its file)
post_work(form, url, vpn, daita, pcap_size, png_size, written, raised) ==
    /\ program = "desktop"
    /\ IF form # "ok"
       THEN /\ last' = Refused(form, url, vpn, daita, pcap_size, png_size, 400, "bad")
            /\ UNCHANGED <<done_dict, pending_visits, last_update_time, disk, tally>>
       ELSE IF SizeCheck(pcap_size, png_size) # "ok"
       THEN /\ last' = Refused(form, url, vpn, daita, pcap_size, png_size, 200, "size")
            /\ UNCHANGED <<done_dict, pending_visits, last_update_time, disk, tally>>
       ELSE IF vpn \notin DOMAIN done_dict \/ url \notin DOMAIN done_dict[vpn]
       THEN \* KeyError at server.py:539 leaves the handler: Flask answers 500
            /\ last' = Refused(form, url, vpn, daita, pcap_size, png_size,
                               500, "exception")
            /\ UNCHANGED <<done_dict, pending_visits, last_update_time, disk, tally>>
       ELSE LET current_count == Counter(done_dict, vpn, url, daita)
                max_samples == config.samples
                d == <<vpn, url2line[url], DirMode(daita)>>
                sample_num == GetFreeSampleNum(disk, d)
            IN  IF AlreadyDone(current_count, max_samples)
                THEN /\ last' = Refused(form, url, vpn, daita, pcap_size, png_size,
                                        200, "done")
                     /\ UNCHANGED <<done_dict, pending_visits, last_update_time,
                                    disk, tally>>
                ELSE IF d \notin DOMAIN disk
                THEN \* write_bytes raises: no such directory
                     /\ last' = PostReply(form, url, vpn, daita, pcap_size, png_size,
                                          500, "error", sample_num, 0, TRUE)
                     /\ UNCHANGED <<done_dict, pending_visits, last_update_time,
                                    disk, tally>>
                ELSE IF WriteRaised(written, raised)
                THEN /\ written > 0 => FailureBudget
                     /\ disk' = [disk EXCEPT ![d] = @ \cup Written(sample_num, written)]
                     /\ last' = PostReply(form, url, vpn, daita, pcap_size, png_size,
                                          500, "error", sample_num, written, raised)
                     /\ tally' = TallyFailed(tally, written)
                     /\ UNCHANGED <<done_dict, pending_visits, last_update_time>>
                ELSE LET r == RecordAccepted(done_dict, pending_visits, vpn, url, daita,
                                             current_count, max_samples)
                     IN  /\ disk' = [disk EXCEPT ![d] = @ \cup Written(sample_num, written)]
                         /\ done_dict' = r.done
                         /\ pending_visits' = r.pending
                         /\ last_update_time' = last_update_time + 1
                         /\ last' = PostReply(form, url, vpn, daita, pcap_size, png_size,
                                              200, "saved", sample_num, written, raised)
                         /\ tally' = [tally EXCEPT !.accepted = @ + 1]
    /\ UNCHANGED <<program, config, vpn_server_list, url2line, accounts,
                   allocated_accounts, unique_clients>>

----------------------------------------------------------------------------
(* Desktop coordinator: boot on the data directory of an earlier run       *)

\* server.py:295-299: the credentials of the database file; the handlers only
\* move them from the pool to the allocation map
Database ==
    Range(accounts) \cup {allocated_accounts[w] : w \in DOMAIN allocated_accounts}

Restarted == [op |-> "restart", status |-> 0]

\* server.py:103-121 on an existing data directory: the structure check of
\* server.py:226-247 passes (the directories of every cell are there),
\* the counters are recomputed from the files, the credential database is
\* loaded and shuffled afresh and the pending list is rebuilt.  Timestamps
\* are counted from the start of the process.
restart ==
    /\ program = "desktop"
    /\ LET dd == LoadProgress(disk, vpn_server_list, url2line, DaitaModes(config))
       IN  /\ done_dict' = dd
           /\ pending_visits' = InitVisitList(dd, vpn_server_list, url2line, config)
    /\ accounts' \in Perms(Database)
    /\ allocated_accounts' = <<>>
    /\ unique_clients' = {}
    /\ last_update_time' = 0
    /\ last' = Restarted
    /\ UNCHANGED <<program, config, vpn_server_list, url2line, disk, tally>>

----------------------------------------------------------------------------
(* DAITA coordinator (src/server/ubuntu_daita/server.py)                   *)

\* both modes are always collected: done_dict_on and done_dict_off
BothModes == <<"on", "off">>

\* ubuntu_daita/server.py:341-348: for daita, done_dict in [on, off],
\* for vpn in done_dict, for url in done_dict[vpn], if count < samples
DaitaCellSeq(vpns, urls) ==
    [k \in 1..(2 * Len(vpns) * Len(urls)) |->
        Visit(urls[((k - 1) % Len(urls)) + 1],
              vpns[(((k - 1) \div Len(urls)) % Len(vpns)) + 1],
              BothModes[((k - 1) \div (Len(urls) * Len(vpns))) + 1])]

\* ubuntu_daita/server.py:338-348
SetupVisitList(dd, vpns, u2l, samples) ==
    SelectSeq(DaitaCellSeq(vpns, UrlSeq(u2l)), LAMBDA v : IsOpen(dd, v, samples))

\* ubuntu_daita/server.py:350-366 with a datadir that does not exist yet
\* (setup_datadir:312-322): every counter is 0
BootDaitaWith(c) ==
    LET cfg == [daita |-> "on", samples |-> c.samples]
        vpns == Prefix(RelayNames, c.nr)
        u2l == LoadUrls(Prefix(UrlNames, c.nu))
        dd == [vpn \in Range(vpns) |-> [url \in DOMAIN u2l |->
                  [mode \in Range(BothModes) |-> 0]]]
    IN  /\ c.daita = "on"
        /\ program = "daita"
        /\ config = cfg
        /\ vpn_server_list = vpns
        /\ url2line = u2l
        /\ disk = FreshTree(vpns, u2l, BothModes)
        /\ done_dict = dd
        /\ accounts \in Perms(Range(Prefix(AccountNames, c.na)))
        /\ allocated_accounts = <<>>
        /\ pending_visits = SetupVisitList(dd, vpns, u2l, cfg.samples)
        /\ unique_clients = {}
        /\ last_update_time = 0
        /\ last = NoReply
        /\ tally = NoPosts

BootDaita == \E c \in Configs : BootDaitaWith(c)

\* the coordinator is up and no request has arrived
InitDaita == BootDaita /\ Quiet

\* ubuntu_daita/server.py:34-53
setup(id) ==
    /\ program = "daita"
    /\ IF id = Missing
       THEN /\ last' = SetupReply(id, 400, "-")
            /\ UNCHANGED <<accounts, allocated_accounts>>
       ELSE IF HasAccount(allocated_accounts, id)
       THEN /\ last' = SetupReply(id, 200, allocated_accounts[id])
            /\ UNCHANGED <<accounts, allocated_accounts>>
       ELSE IF accounts = <<>>
       THEN /\ last' = SetupReply(id, 400, "-")
            /\ UNCHANGED <<accounts, allocated_accounts>>
       ELSE LET p == PopAccount(accounts)
            IN  /\ accounts' = p.rest
                /\ allocated_accounts' = Assign(allocated_accounts, id, p.account)
                /\ last' = SetupReply(id, 200, p.account)
    /\ UNCHANGED <<program, config, vpn_server_list, url2line, done_dict,
                   pending_visits, unique_clients, last_update_time, disk, tally>>

\* ubuntu_daita/server.py:55-70
status ==
    /\ program = "daita"
    /\ last' = [op |-> "status", status |-> 200,
                total_to_collect |-> 2 * config.samples * Cardinality(DOMAIN url2line)
                                       * Len(vpn_server_list),
                total_collected |-> TotalCollected(done_dict),
                clients |-> unique_clients,
                allocated |-> Cardinality(DOMAIN allocated_accounts),
                pool |-> Len(accounts)]
    /\ UNCHANGED <<program, config, vpn_server_list, url2line, accounts,
                   allocated_accounts, done_dict, pending_visits, unique_clients,
                   last_update_time, disk, tally>>

\* ubuntu_daita/server.py:89: every pair of another relay than the worker's,
\* unless a single pair is left
Filtered(available, server) ==
    IF Cardinality(available) > 1
    THEN {pair \in available : pair[1] # server}
    ELSE available

\* ubuntu_daita/server.py:72-91.  random.choice of an empty list raises
\* IndexError, which leaves the handler: Flask answers 500
get_server(id, server) ==
    /\ program = "daita"
    /\ IF id = Missing \/ server = Missing
       THEN /\ last' = ServerReply(id, server, "-", 400, NoPair)
            /\ UNCHANGED unique_clients
       ELSE /\ unique_clients' = unique_clients \cup {id}
            /\ LET available == Available(pending_visits)
                   filtered == Filtered(available, server)
               IN  IF available = {}
                   THEN last' = ServerReply(id, server, "-", 400, NoPair)
                   ELSE IF filtered = {}
                   THEN last' = ServerReply(id, server, "-", 500, NoPair)
                   ELSE \E pair \in filtered :
                            last' = ServerReply(id, server, "-", 200, pair)
    /\ UNCHANGED <<program, config, vpn_server_list, url2line, accounts,
                   allocated_accounts, done_dict, pending_visits,
                   last_update_time, disk, tally>>

\* ubuntu_daita/server.py:93-116
daita_get_work(id, server, daita) ==
    /\ program = "daita"
    /\ IF id = Missing
       THEN /\ last' = WorkReply(id, server, daita, 400, NoVisit)
            /\ UNCHANGED unique_clients
       ELSE /\ unique_clients' = unique_clients \cup {id}
            /\ IF server = NoServer
               THEN last' = WorkReply(id, server, daita, 400, NoVisit)
               ELSE LET filtered_visits ==
                            IF server # Missing /\ daita # Missing
                            THEN WorkChoices(pending_visits, server, daita)
                            ELSE pending_visits
                    IN  IF filtered_visits = <<>>
                        THEN last' = WorkReply(id, server, daita,
                                               IF server # Missing /\ daita # Missing
                                               THEN 400 ELSE 500,
                                               NoVisit)
                        ELSE \E i \in DOMAIN filtered_visits :
                                 last' = WorkReply(id, server, daita, 200,
                                                   filtered_visits[i])
    /\ UNCHANGED <<program, config, vpn_server_list, url2line, accounts,
                   allocated_accounts, done_dict, pending_visits,
                   last_update_time, disk, tally>>

\* ubuntu_daita/server.py:149: pcap_kib < 30 or pcap_kib > 1500
DaitaMinPcap == 30 * KiB
DaitaMaxPcap == 1500 * KiB

\* ubuntu_daita/server.py:151: png_kib < 30
DaitaMinPng == 30 * KiB

\* ubuntu_daita/server.py:149-152
DaitaSizeCheck(pcap_size, png_size) ==
    IF pcap_size < DaitaMinPcap \/ pcap_size > DaitaMaxPcap THEN "pcap"
    ELSE IF png_size < DaitaMinPng THEN "png"
    ELSE "ok"

RECURSIVE FirstFree(_, _)
FirstFree(pngs, n) == IF n \in pngs THEN FirstFree(pngs, n + 1) ELSE n

GetFreeSampleAfterLast(tree, d) ==
    IF d \notin DOMAIN tree \/ FilesWithExt(tree[d], "png") = {} THEN 0
    ELSE SetMax(Stems(FilesWithExt(tree[d], "png"))) + 1

\* ubuntu_daita/server.py:182-189: the smallest N with no N.png
GetFreeSample(tree, d) ==
    IF d \notin DOMAIN tree THEN 0
    ELSE FirstFree(Stems(FilesWithExt(tree[d], "png")), 0)

\* ubuntu_daita/server.py:156: done_dict_on if daita == 'on' else done_dict_off
DictOf(daita) == IF daita = "on" THEN "on" ELSE "off"

\* ubuntu_daita/server.py:118-180.  An exception in the locked section (an
\* unknown relay or URL, a failing open or write, metadata that is not JSON)
\* leaves the handler: Flask answers 500
\* budget: the bound on the failed writes that are explored
daita_post(form, url, vpn, daita, pcap_size, png_size, written, raised, budget) ==
    /\ program = "daita"
    /\ IF form # "ok"
       THEN /\ last' = Refused(form, url, vpn, daita, pcap_size, png_size, 400, "bad")
            /\ UNCHANGED <<done_dict, pending_visits, last_update_time, disk, tally>>
       ELSE IF DaitaSizeCheck(pcap_size, png_size) # "ok"
       THEN /\ last' = Refused(form, url, vpn, daita, pcap_size, png_size, 200, "size")
            /\ UNCHANGED <<done_dict, pending_visits, last_update_time, disk, tally>>
       ELSE IF vpn \notin DOMAIN done_dict \/ url \notin DOMAIN done_dict[vpn]
       THEN /\ last' = Refused(form, url, vpn, daita, pcap_size, png_size,
                               500, "exception")
            /\ UNCHANGED <<done_dict, pending_visits, last_update_time, disk, tally>>
       ELSE LET current_count == done_dict[vpn][url][DictOf(daita)]
                d == <<vpn, url2line[url], daita>>
                sample == GetFreeSample(disk, d)
            IN  IF AlreadyDone(current_count, config.samples)
                THEN /\ last' = Refused(form, url, vpn, daita, pcap_size, png_size,
                                        200, "done")
                     /\ UNCHANGED <<done_dict, pending_visits, last_update_time,
                                    disk, tally>>
                ELSE IF d \notin DOMAIN disk
                THEN /\ last' = PostReply(form, url, vpn, daita, pcap_size, png_size,
                                          500, "exception", sample, 0, TRUE)
                     /\ UNCHANGED <<done_dict, pending_visits, last_update_time,
                                    disk, tally>>
                ELSE IF WriteRaised(written, raised)
                THEN /\ written > 0 => budget
                     /\ disk' = [disk EXCEPT ![d] = @ \cup Written(sample, written)]
                     /\ last' = PostReply(form, url, vpn, daita, pcap_size, png_size,
                                          500, "exception", sample, written, raised)
                     /\ tally' = TallyFailed(tally, written)
                     /\ UNCHANGED <<done_dict, pending_visits, last_update_time>>
                ELSE LET r == RecordAccepted(done_dict, pending_visits, vpn, url,
                                             DictOf(daita), current_count,
                                             config.samples)
                     IN  /\ disk' = [disk EXCEPT ![d] = @ \cup Written(sample, written)]
                         /\ done_dict' = r.done
                         /\ pending_visits' = r.pending
                         /\ last_update_time' = last_update_time + 1
                         /\ last' = PostReply(form, url, vpn, daita, pcap_size, png_size,
                                              200, "saved", sample, written, raised)
                         /\ tally' = [tally EXCEPT !.accepted = @ + 1]
    /\ UNCHANGED <<program, config, vpn_server_list, url2line, accounts,
                   allocated_accounts, unique_clients>>

\* POST /work of the DAITA coordinator under the bound of Spec
daita_post_work(form, url, vpn, daita, pcap_size, png_size, written, raised) ==
    daita_post(form, url, vpn, daita, pcap_size, png_size, written, raised, FailureBudget)

----------------------------------------------------------------------------
(* Request inputs                                                          *)

Ids == Workers \cup {Missing}

\* GET /server and GET /work: every worker, every configured relay or "None",
\* both modes; and one request for each argument left out
GetRequests ==
    [id : Workers, server : Range(vpn_server_list) \cup {NoServer}, daita : {"on", "off"}]
    \cup {[id |-> Missing, server |-> NoServer, daita |-> "off"],
          [id |-> "w1", server |-> Missing, daita |-> "off"],
          [id |-> "w1", server |-> NoServer, daita |-> Missing]}

\* the cells of the matrix, and one cell off the matrix in each coordinate
PostCells ==
    [vpn : Range(vpn_server_list), url : DOMAIN url2line, daita : {"on", "off"}]
    \cup {[vpn |-> UnknownRelay, url |-> UrlNames[1], daita |-> "off"],
          [vpn |-> RelayNames[1], url |-> UnknownUrl, daita |-> "off"],
          [vpn |-> RelayNames[1], url |-> UrlNames[1], daita |-> UnknownMode]}

\* the cells named by the submissions that are refused before the cell is
\* looked at: the first cell of the matrix and a cell of an unknown relay
RefusedCells ==
    {[vpn |-> RelayNames[1], url |-> UrlNames[1], daita |-> "off"],
     [vpn |-> UnknownRelay, url |-> UrlNames[1], daita |-> "off"]}

\* <<pcap size, png size>> in bytes, on both sides of every bound
BadSizes ==
    {<<MinPcap - 1, MinPng>>, <<MaxPcap + 1, MinPng>>, <<MinPcap, MinPng - 1>>,
     <<3 * 1024 * KiB, MinPng>>}
GoodSizes == {<<MinPcap, MinPng>>, <<MaxPcap, MinPng>>}

\* the sizes sent along with a form that is refused: within and out of bounds
FormSizes == {<<MinPcap, MinPng>>, <<MinPcap - 1, MinPng>>}

\* <<files left on disk, raised>> of a three-file write that fails
FailedWrites == {<<0, TRUE>>, <<1, TRUE>>, <<2, TRUE>>, <<3, TRUE>>}

DaitaBadSizes ==
    {<<DaitaMinPcap - 1, DaitaMinPng>>, <<DaitaMaxPcap + 1, DaitaMinPng>>,
     <<DaitaMinPcap, DaitaMinPng - 1>>}
DaitaGoodSizes == {<<DaitaMinPcap, DaitaMinPng>>, <<DaitaMaxPcap, DaitaMinPng>>}

Init == InitDesktop \/ InitDaita

\* the requests the desktop coordinator serves
DesktopNext ==
    \/ \E id \in Ids : setup_client(id) /\ UNCHANGED aux
    \/ get_status /\ UNCHANGED aux
    \/ hello /\ UNCHANGED aux
    \/ \E q \in GetRequests : get_vpn_server(q.id, q.server, q.daita) /\ UNCHANGED aux
    \/ \E q \in GetRequests : get_work(q.id, q.server, q.daita) /\ UNCHANGED aux
    \/ \E c \in RefusedCells, form \in {"missing", "badhex"}, sz \in FormSizes :
           post_work(form, c.url, c.vpn, c.daita, sz[1], sz[2], 3, FALSE) /\ UNCHANGED aux
    \/ \E c \in RefusedCells, sz \in BadSizes :
           post_work("ok", c.url, c.vpn, c.daita, sz[1], sz[2], 3, FALSE) /\ UNCHANGED aux
    \/ \E c \in PostCells, sz \in GoodSizes :
           post_work("ok", c.url, c.vpn, c.daita, sz[1], sz[2], 3, FALSE) /\ UNCHANGED aux
    \/ \E c \in PostCells, w \in FailedWrites :
           post_work("ok", c.url, c.vpn, c.daita, MinPcap, MinPng, w[1], w[2]) /\ UNCHANGED aux

----------------------------------------------------------------------------
(* DAITA coordinator: boot on the data directory of an earlier run         *)

RECURSIVE SumFiles(_, _)
SumFiles(tree, D) ==
    IF D = {} THEN 0
    ELSE LET d == CHOOSE d \in D : TRUE
         IN  Cardinality(tree[d]) + SumFiles(tree, D \ {d})

\* the directories of one relay and one mode
ModeDirs(vpn, u2l, mode) == {<<vpn, u2l[url], mode>> : url \in DOMAIN u2l}

\* ubuntu_daita/server.py:285-305: setup_datadir goes on iff, for every relay
\* and mode, the files of all its directories together are a multiple of
\* three and every .png has its .pcap next to it
DatadirAccepted(tree, vpns, u2l) ==
    \A vpn \in Range(vpns), mode \in Range(BothModes) :
        /\ SumFiles(tree, ModeDirs(vpn, u2l, mode)) % 3 = 0
        /\ \A d \in ModeDirs(vpn, u2l, mode) :
               \A f \in FilesWithExt(tree[d], "png") : File(f.stem, "pcap") \in tree[d]

\* ubuntu_daita/server.py:285-286, 306-309: the counter of a cell is the
\* number of files of its directory // 3
DoneFromCount(tree, vpns, u2l) ==
    [vpn \in Range(vpns) |-> [url \in DOMAIN u2l |-> [mode \in Range(BothModes) |->
        Cardinality(tree[<<vpn, u2l[url], mode>>]) \div 3]]]

\* ubuntu_daita/server.py:350-366 on the data directory of the earlier run;
\* a directory that setup_datadir refuses ends the process (sys.exit) before
\* it serves a request
daita_restart ==
    /\ program = "daita"
    /\ DatadirAccepted(disk, vpn_server_list, url2line)
    /\ LET dd == DoneFromCount(disk, vpn_server_list, url2line)
       IN  /\ done_dict' = dd
           /\ pending_visits' = SetupVisitList(dd, vpn_server_list, url2line,
                                               config.samples)
    /\ accounts' \in Perms(Database)
    /\ allocated_accounts' = <<>>
    /\ unique_clients' = {}
    /\ last_update_time' = 0
    /\ last' = Restarted
    /\ UNCHANGED <<program, config, vpn_server_list, url2line, disk, tally>>

\* the requests the DAITA coordinator serves
DaitaNext ==
    \/ \E id \in Ids : setup(id) /\ UNCHANGED aux
    \/ status /\ UNCHANGED aux
    \/ \E q \in GetRequests : get_server(q.id, q.server) /\ UNCHANGED aux
    \/ \E q \in GetRequests : daita_get_work(q.id, q.server, q.daita) /\ UNCHANGED aux
    \/ \E c \in RefusedCells, form \in {"missing", "badhex"} :
           daita_post_work(form, c.url, c.vpn, c.daita, DaitaMinPcap, DaitaMinPng,
                           3, FALSE) /\ UNCHANGED aux
    \/ \E c \in RefusedCells, sz \in DaitaBadSizes :
           daita_post_work("ok", c.url, c.vpn, c.daita, sz[1], sz[2], 3, FALSE) /\ UNCHANGED aux
    \/ \E c \in PostCells, sz \in DaitaGoodSizes :
           daita_post_work("ok", c.url, c.vpn, c.daita, sz[1], sz[2], 3, FALSE) /\ UNCHANGED aux
    \/ \E c \in PostCells, w \in FailedWrites :
           daita_post_work("ok", c.url, c.vpn, c.daita, DaitaMinPcap, DaitaMinPng,
                           w[1], w[2]) /\ UNCHANGED aux

Next == DesktopNext \/ DaitaNext

----------------------------------------------------------------------------
(* DAITA worker: ubuntu_daita/client.py main, against the DAITA coordinator *)

\* ubuntu_daita/client.py:412: whoami = generate_identifier()
whoami == "w1"

\* ubuntu_daita/client.py:31-34, 426: the globals and main's counter.
\* pc: "setup" | "loop" | "nowork" | "gotwork" | "rotate" | "visit" | "post";
\* conn_visits, rotated: history - the visits made since the tunnel was last
\* connected, and whether the last GET /server of configure_mullvad_for_visit
\* was answered with a relay and a mode
DaitaWorker(pc, server, daita_on, count, work, conn_visits, rotated) ==
    [pc |-> pc, current_server |-> server, daita_on |-> daita_on,
     current_visit_count |-> count, work |-> work, conn_visits |-> conn_visits,
     rotated |-> rotated]

\* 'on' if daita_on else 'off'
OnOff(daita_on) == IF daita_on THEN "on" ELSE "off"

\* ubuntu_daita/client.py:291-346, 421-426: GET /setup; anything but a 200
\* and a tunnel that comes up is tried again
d_setup ==
    /\ worker.pc = "setup"
    /\ \/ /\ setup(whoami)
          /\ \/ /\ last'.status = 200
                /\ worker' = [worker EXCEPT !.pc = "loop", !.current_visit_count = 0,
                                            !.conn_visits = 0]
             \/ worker' = worker
       \/ \* the request raised
          UNCHANGED <<server_vars, worker>>
    /\ UNCHANGED <<lock, threads>>

\* ubuntu_daita/client.py:348-359, 429-430: GET /work; None unless 200
d_get_work ==
    /\ worker.pc = "loop"
    /\ \/ /\ daita_get_work(whoami, worker.current_server, OnOff(worker.daita_on))
          /\ worker' = IF last'.status = 200
                       THEN [worker EXCEPT !.pc = "gotwork",
                                           !.work = Visit(last'.url, last'.vpn, last'.mode)]
                       ELSE [worker EXCEPT !.pc = "nowork"]
       \/ /\ worker' = [worker EXCEPT !.pc = "nowork"]
          /\ UNCHANGED server_vars
    /\ UNCHANGED <<lock, threads>>

\* the worker after configure_mullvad_for_visit got 200 with `pair`
\* (ubuntu_daita/client.py:225-247): the tunnel is taken down and up again
\* only when the relay changes
Configured(w, pair) ==
    [w EXCEPT !.daita_on = (pair[2] = "on"),
              !.current_server = pair[1],
              !.conn_visits = IF w.current_server # pair[1] THEN 0 ELSE @,
              !.rotated = TRUE]

\* ubuntu_daita/client.py:434-435, 451-452: current_visit_count = 0 whatever
\* configure_mullvad_for_visit returned
ResetAfter(w, pc) == [w EXCEPT !.pc = pc, !.current_visit_count = 0]

\* ubuntu_daita/client.py:215-251 with the statement after its call in main:
\* 433-438 when there is no work, 450-452 before a visit
d_rotate ==
    /\ worker.pc \in {"nowork", "rotate"}
    /\ LET pc == IF worker.pc = "nowork" THEN "loop" ELSE "visit"
       IN  \/ /\ get_server(whoami, worker.current_server)
              /\ IF last'.status = 200
                 THEN worker' = ResetAfter(Configured(worker, <<last'.vpn, last'.mode>>),
                                           pc)
                 ELSE worker' = ResetAfter([worker EXCEPT !.rotated = FALSE], pc)
           \/ /\ worker' = ResetAfter([worker EXCEPT !.rotated = FALSE], pc)
              /\ UNCHANGED server_vars
    /\ UNCHANGED <<lock, threads>>

\* ubuntu_daita/client.py:444-452: the browser starts or the work is skipped;
\* a new relay is asked for when the connection made visit_count visits
d_start ==
    /\ worker.pc = "gotwork"
    /\ \/ worker' = [worker EXCEPT !.pc = "loop"]
       \/ worker' = [worker EXCEPT
                        !.pc = IF \/ worker.current_visit_count >= VisitCount
                                  \/ worker.current_server = NoServer
                               THEN "rotate" ELSE "visit"]
    /\ UNCHANGED <<server_vars, lock, threads>>

\* ubuntu_daita/client.py:454-466: the visit; a failed one is skipped
d_visit ==
    /\ worker.pc = "visit"
    /\ worker.conn_visits <= VisitCount
    /\ \/ worker' = [worker EXCEPT !.pc = "loop"]
       \/ worker' = [worker EXCEPT !.pc = "post", !.conn_visits = @ + 1]
    /\ UNCHANGED <<server_vars, lock, threads>>

\* ubuntu_daita/client.py:361-375, 474-478: POST /work until it answers 200,
\* then current_visit_count += 1.  vpn is current_server (None is not sent),
\* daita is the mode of the work
d_post ==
    /\ worker.pc = "post"
    /\ \/ /\ daita_post(IF worker.current_server = NoServer THEN "missing" ELSE "ok",
                        worker.work.url, worker.current_server, worker.work.daita,
                        DaitaMinPcap, DaitaMinPng, 3, FALSE, TRUE)
          /\ worker' = IF last'.status = 200
                       THEN [worker EXCEPT !.pc = "loop", !.current_visit_count = @ + 1]
                       ELSE worker
       \/ UNCHANGED <<server_vars, worker>>
    /\ UNCHANGED <<lock, threads>>

\* one or two relays, one URL, up to three samples a cell, one credential
ClientConfigs ==
    [nr : 1..MaxRelays, nu : {1}, daita : {"on"}, samples : 1..(VisitCount + 1), na : {1}]

\* the DAITA coordinator on a fresh data directory and a worker that starts
InitDaitaClient ==
    /\ \E c \in ClientConfigs : BootDaitaWith(c)
    /\ lock = Free /\ threads = <<>>
    /\ worker = DaitaWorker("setup", NoServer, FALSE, 0, NoVisit, 0, FALSE)

DaitaClientNext ==
    \/ d_setup
    \/ d_get_work
    \/ d_rotate
    \/ d_start
    \/ d_visit
    \/ d_post

\* one DAITA worker and the DAITA coordinator
SpecDaitaClient == InitDaitaClient /\ [][DaitaClientNext]_vars

----------------------------------------------------------------------------
(* Desktop worker: ubuntu_desktop/client.py run, against the desktop       *)
(* coordinator                                                              *)

\* ubuntu_desktop/client.py:71: the identifier of the worker
identifier == "w1"

\* ubuntu_desktop/client.py:82-87: state.  pc: "init" | "configure" | "loop" |
\* "rotate" | "exec" | "visit" | "post" | "crashed"; ctx: the caller of
\* _rotate_vpn_server, "work" (_server_request after a 409) or "exec"
\* (_execute_task); tries: the failed attempts of the retry_with_backoff
\* wrappers that are running; current_server None is NoServer.
\* owes: history - GET /work was answered 409 and no GET /server was sent
\* since
StartWorker ==
    [pc |-> "init", ctx |-> "-", current_server |-> NoServer, daita |-> "off",
     current_visit_count |-> 0, visit_count |-> 0, task |-> NoVisit,
     tries_get |-> 0, tries_rot |-> 0, tries_post |-> 0,
     owes |-> FALSE]

\* requests drops a parameter whose value is None: self.state.get(
\* "current_server", "None") is None while no relay was assigned
\* (ubuntu_desktop/client.py:443, 463, 483)
ServerParam(w) == IF w.current_server = NoServer THEN Missing ELSE w.current_server

\* ubuntu_desktop/client.py:511-517, 405-428: GET /setup; the reply sets
\* visit_count
c_setup ==
    /\ worker.pc = "init"
    /\ \/ /\ setup_client(identifier)
          /\ worker' = IF last'.status = 200
                       THEN [worker EXCEPT !.pc = "configure",
                                           !.visit_count = last'.payload.visit_count]
                       ELSE worker
       \/ UNCHANGED <<server_vars, worker>>
    /\ UNCHANGED <<lock, threads>>

\* ubuntu_desktop/client.py:518-530: the tunnel comes up or _initialize_vpn
\* returns False
Connected(w) == {[w EXCEPT !.pc = "loop"], [w EXCEPT !.pc = "init"]}

\* ubuntu_desktop/client.py:132-169: GET /server with server "None"; without
\* a 200 the relay stays what it was
c_configure ==
    /\ worker.pc = "configure"
    /\ \/ /\ get_vpn_server(identifier, NoServer, worker.daita)
          /\ worker' \in Connected(IF last'.status = 200
                                   THEN [worker EXCEPT !.current_server = last'.vpn,
                                                       !.daita = last'.mode]
                                   ELSE worker)
       \/ /\ worker' \in Connected(worker)
          /\ UNCHANGED server_vars
    /\ UNCHANGED <<lock, threads>>

\* retry_with_backoff (ubuntu_desktop/client.py:24-59) when the wrapped call
\* raised a RequestException: the call is made again, at pc `again`, or the
\* exception leaves the wrapper
Retry(w, tries, again) ==
    IF w[tries] + 1 < MaxAttempts
    THEN [w EXCEPT ![tries] = @ + 1, !.pc = again]
    ELSE [w EXCEPT ![tries] = 0, !.pc = "raise"]

\* an exception that left the wrapper of _get_next_task or left
\* _execute_task ends run (ubuntu_desktop/client.py:594-609 catches nothing)
RunRaised(w) ==
    [w EXCEPT !.pc = "crashed", !.tries_get = 0, !.tries_rot = 0, !.tries_post = 0]

\* a RequestException in GET /work or that left _rotate_vpn_server called for
\* a 409 reaches the wrapper of _get_next_task
GetRaised(w) ==
    LET r == Retry(w, "tries_get", "loop")
    IN  IF r.pc = "raise" THEN RunRaised(r) ELSE r

\* a RequestException that left _rotate_vpn_server or _post_results called
\* by _execute_task leaves _execute_task, which has no wrapper, and run
ExecRaised(w) == RunRaised(w)

AfterWorkNoRotate(w, code, visit) ==
    IF code = 200
    THEN [w EXCEPT !.pc = "exec", !.task = visit, !.tries_get = 0]
    ELSE [w EXCEPT !.pc = "loop", !.tries_get = 0, !.owes = (code = 409)]

\* ubuntu_desktop/client.py:388-403, 598-609 on the reply to GET /work: a 409
\* calls _rotate_vpn_server before anything else, a task is executed, any
\* other status gives None and the loop goes on
AfterWork(w, code, visit) ==
    IF code = 200
    THEN [w EXCEPT !.pc = "exec", !.task = visit, !.tries_get = 0]
    ELSE IF code = 409
    THEN [w EXCEPT !.pc = "rotate", !.ctx = "work", !.owes = TRUE]
    ELSE [w EXCEPT !.pc = "loop", !.tries_get = 0]

\* ubuntu_desktop/client.py:433-446: GET /work
c_get_work ==
    /\ worker.pc = "loop"
    /\ \/ /\ get_work(identifier, ServerParam(worker), worker.daita)
          /\ worker' = AfterWork(worker, last'.status,
                                 Visit(last'.url, last'.vpn, last'.mode))
       \/ /\ worker' = GetRaised(worker)
          /\ UNCHANGED server_vars
    /\ UNCHANGED <<lock, threads>>

\* _rotate_vpn_server returned `ok` (ubuntu_desktop/client.py:400-403 after a
\* 409: raise_for_status makes _server_request return None; 538-542 in
\* _execute_task)
Rotated(w, ok) ==
    IF w.ctx = "work"
    THEN [w EXCEPT !.pc = "loop", !.ctx = "-", !.tries_rot = 0, !.tries_get = 0]
    ELSE [w EXCEPT !.pc = IF ok THEN "visit" ELSE "loop", !.ctx = "-", !.tries_rot = 0]

\* a RequestException left _rotate_vpn_server
RotateRaised(w) ==
    LET r == Retry(w, "tries_rot", "rotate")
    IN  IF r.pc # "raise" THEN r
        ELSE IF w.ctx = "work" THEN GetRaised([r EXCEPT !.ctx = "-"])
        ELSE ExecRaised([r EXCEPT !.ctx = "-"])

\* ubuntu_desktop/client.py:477-509: GET /server with the current relay and
\* mode; a 200 sets the relay and the mode and resets current_visit_count
c_rotate ==
    /\ worker.pc = "rotate"
    /\ \/ /\ get_vpn_server(identifier, ServerParam(worker), worker.daita)
          /\ worker' = IF last'.status = 200
                       THEN Rotated([worker EXCEPT !.current_server = last'.vpn,
                                                   !.daita = last'.mode,
                                                   !.current_visit_count = 0,
                                                   !.owes = FALSE], TRUE)
                       ELSE Rotated([worker EXCEPT !.owes = FALSE], FALSE)
       \/ /\ worker' = RotateRaised([worker EXCEPT !.owes = FALSE])
          /\ UNCHANGED server_vars
    /\ UNCHANGED <<lock, threads>>

\* ubuntu_desktop/client.py:532-542: a new relay is asked for when the
\* connection made visit_count visits or there is no relay
c_exec ==
    /\ worker.pc = "exec"
    /\ worker' = IF \/ worker.current_visit_count >= worker.visit_count
                    \/ worker.current_server = NoServer
                 THEN [worker EXCEPT !.pc = "rotate", !.ctx = "exec"]
                 ELSE [worker EXCEPT !.pc = "visit"]
    /\ UNCHANGED <<server_vars, lock, threads>>

\* ubuntu_desktop/client.py:543-575: the visit; current_visit_count += 1
\* whether it failed or not, a failed one ends the task
c_visit ==
    /\ worker.pc = "visit"
    /\ \/ worker' = [worker EXCEPT !.pc = "loop", !.current_visit_count = @ + 1]
       \/ worker' = [worker EXCEPT !.pc = "post", !.current_visit_count = @ + 1]
    /\ UNCHANGED <<server_vars, lock, threads>>

\* ubuntu_desktop/client.py:449-468, 590: POST /work with the task's URL and
\* the current relay and mode
c_post ==
    /\ worker.pc = "post"
    /\ \/ /\ \E sz \in {<<MinPcap, MinPng>>, <<MinPcap - 1, MinPng>>} :
                 post_work("ok", worker.task.url, worker.current_server, worker.daita,
                           sz[1], sz[2], 3, FALSE)
          /\ worker' = [worker EXCEPT !.pc = "loop", !.tries_post = 0]
       \/ /\ worker' = LET r == Retry(worker, "tries_post", "post")
                       IN  IF r.pc = "raise" THEN ExecRaised(r) ELSE r
          /\ UNCHANGED server_vars
    /\ UNCHANGED <<lock, threads>>

\* a configuration file that sets server.visits
VisitsFile == "server" :> ("visits" :> VisitCount)

\* one or two relays, one URL, one mode or both, one or two samples a cell,
\* one credential
DesktopClientConfigs ==
    [nr : 1..MaxRelays, nu : {1}, daita : {"on", "off"}, samples : 1..2, na : {1}]

\* the desktop coordinator on a fresh data directory and a worker that starts
InitDesktopClient ==
    /\ \E c \in DesktopClientConfigs : BootDesktopWith(c, VisitsFile)
    /\ lock = Free /\ threads = <<>>
    /\ worker = StartWorker

DesktopClientNext ==
    \/ c_setup
    \/ c_configure
    \/ c_get_work
    \/ c_rotate
    \/ c_exec
    \/ c_visit
    \/ c_post

\* one desktop worker and the desktop coordinator
SpecDesktopClient == InitDesktopClient /\ [][DesktopClientNext]_vars

\* the keys setup_client passes on, by the section the configuration file
\* documents them in
TimingKeys ==
    {"grace", "min_wait", "max_wait", "post_browser_pre_capture_wait",
     "post_packet_pre_visit_wait"}
ClientKeys == {"display_size", "fullscreen"}

\* timing and client sections that set every key, two values each
TimingSections ==
    [grace : {5, 7}, min_wait : {20, 25}, max_wait : {30, 45},
     post_browser_pre_capture_wait : {5, 2}, post_packet_pre_visit_wait : {5, 3}]
ClientSections == [display_size : {<<1920, 1080>>, <<1280, 720>>}, fullscreen : BOOLEAN]

\* a key that a JSON object may leave out
Optional(key, values) == {<<>>} \cup {key :> v : v \in values}

\* configuration files: the plain one, and every file with a timing and a
\* client section in which the same keys may also stand in the server section
\* and at the top level
ConfigFiles ==
    {PlainFile} \cup
    {("server" :> (sd @@ sf)) @@ ("timing" :> t) @@ ("client" :> c) @@ tb @@ tp :
        sd \in Optional("display_size", {<<800, 600>>}),
        sf \in Optional("fullscreen", {FALSE}),
        t \in TimingSections, c \in ClientSections,
        tb \in Optional("post_browser_pre_capture_wait", {9}),
        tp \in Optional("post_packet_pre_visit_wait", {8})}

\* server.py:103-121 on a fresh data directory, one relay, one URL, one
\* credential, for each configuration file
InitSetupConfig ==
    \E file \in ConfigFiles :
        LET cfg == [daita |-> "off", samples |-> 1, file |-> LoadConfig(file)]
            vpns == Prefix(RelayNames, 1)
            u2l == LoadUrls(Prefix(UrlNames, 1))
            tree == FreshTree(vpns, u2l, DaitaModes(cfg))
            dd == LoadProgress(tree, vpns, u2l, DaitaModes(cfg))
        IN  /\ program = "desktop"
            /\ config = cfg
            /\ vpn_server_list = vpns
            /\ url2line = u2l
            /\ disk = tree
            /\ done_dict = dd
            /\ accounts = Prefix(AccountNames, 1)
            /\ allocated_accounts = <<>>
            /\ pending_visits = InitVisitList(dd, vpns, u2l, cfg)
            /\ unique_clients = {}
            /\ last_update_time = 0
            /\ last = NoReply
            /\ tally = NoPosts
            /\ Quiet

SetupConfigNext ==
    \/ \E id \in Ids : setup_client(id) /\ UNCHANGED aux
    \/ hello /\ UNCHANGED aux

\* the desktop coordinator serving /setup under each configuration file
SpecSetupConfig == InitSetupConfig /\ [][SetupConfigNext]_vars

\* one run of either coordinator, booted on a data directory it creates
Spec == Init /\ [][Next]_vars

\* a cell of the matrix named with the mode "off" spelled with a trailing slash
AliasCells == {[vpn |-> RelayNames[1], url |-> UrlNames[1], daita |-> AliasMode]}

----------------------------------------------------------------------------
(* A worker that follows the protocol of the desktop coordinator, and the   *)
(* requests of other workers                                               *)

\* the worker before its first request: no relay ("None"), mode off, no task
\* pc: "work" (about to GET /work) | "server" (about to GET /server) |
\* "post" (about to POST the sample of its task)
ProtocolWorker(pc, server, daita, task) ==
    [pc |-> pc, current_server |-> server, daita |-> daita, task |-> task]

\* GET /work with the worker's pair (server.py:437-485): 200 hands out a
\* task, 409 sends the worker to GET /server
p_get_work ==
    /\ worker.pc = "work"
    /\ get_work(identifier, worker.current_server, worker.daita)
    /\ worker' = IF last'.status = 200
                 THEN [worker EXCEPT !.pc = "post",
                                     !.task = Visit(last'.url, last'.vpn, last'.mode)]
                 ELSE [worker EXCEPT !.pc = "server"]
    /\ UNCHANGED <<lock, threads>>

\* GET /server with the worker's pair (server.py:400-435): the worker adopts
\* the pair of a 200 reply and asks for work again either way
p_get_server ==
    /\ worker.pc = "server"
    /\ get_vpn_server(identifier, worker.current_server, worker.daita)
    /\ worker' = IF last'.status = 200
                 THEN [worker EXCEPT !.pc = "work", !.current_server = last'.vpn,
                                     !.daita = last'.mode]
                 ELSE [worker EXCEPT !.pc = "work"]
    /\ UNCHANGED <<lock, threads>>

\* POST /work with a size-valid sample for the cell of the task
\* (server.py:487-585), all three files written
p_post ==
    /\ worker.pc = "post"
    /\ post_work("ok", worker.task.url, worker.task.vpn, worker.task.daita,
                 MinPcap, MinPng, 3, FALSE)
    /\ worker' = [worker EXCEPT !.pc = "work", !.task = NoVisit]
    /\ UNCHANGED <<lock, threads>>

\* one step of the worker
ProtocolNext == p_get_work \/ p_get_server \/ p_post

\* what other workers send meanwhile: /status, and size-valid samples for
\* every cell of PostCells and AliasCells, all three files written
OthersNext ==
    \/ get_status /\ UNCHANGED aux
    \/ \E c \in PostCells \cup AliasCells :
           post_work("ok", c.url, c.vpn, c.daita, MinPcap, MinPng, 3, FALSE)
               /\ UNCHANGED aux

\* one or two relays, one URL, one mode or both, one or two samples a cell
ProtocolConfigs ==
    [nr : 1..MaxRelays, nu : {1}, daita : {"on", "off"}, samples : 1..2, na : {0}]

InitProtocol ==
    /\ \E c \in ProtocolConfigs : BootDesktopWith(c, PlainFile)
    /\ lock = Free /\ threads = <<>>
    /\ worker = ProtocolWorker("work", NoServer, "off", NoVisit)

\* the worker never stops: its next request is sent and answered
SpecProtocol ==
    InitProtocol /\ [][ProtocolNext \/ OthersNext]_vars /\ WF_vars(ProtocolNext)

\* one relay, one URL, one mode or both, one or two samples a cell
AliasConfigs == [nr : {1}, nu : {1}, daita : {"on", "off"}, samples : 1..2, na : {0}]

InitAlias == (\E c \in AliasConfigs : BootDesktopWith(c, PlainFile)) /\ Quiet

\* the requests of DesktopNext, and valid submissions for AliasCells
AliasNext ==
    \/ DesktopNext
    \/ \E c \in AliasCells, sz \in GoodSizes :
           post_work("ok", c.url, c.vpn, c.daita, sz[1], sz[2], 3, FALSE) /\ UNCHANGED aux

\* one run of the desktop coordinator in which the mode of a submission may
\* be spelled in a way the directory path absorbs
SpecAlias == InitAlias /\ [][AliasNext]_vars

\* URL files of up to MaxUrlLines lines
UrlFiles == UNION {[1..n -> UrlLines] : n \in 0..MaxUrlLines}

\* the process after sys.exit(1) in _load_urls: no coordinator
Exited(cfg) ==
    /\ program = "exited"
    /\ config = cfg
    /\ vpn_server_list = <<>> /\ url2line = <<>> /\ disk = <<>>
    /\ done_dict = <<>> /\ pending_visits = <<>>
    /\ accounts = <<>> /\ allocated_accounts = <<>>
    /\ unique_clients = {} /\ last_update_time = 0
    /\ last = NoReply /\ tally = NoPosts

\* server.py:103-121 with each URL file, one relay, mode off, one sample a
\* cell, no credential, on a fresh data directory; config.urllist stands for
\* the content of the file that config["server"]["urllist"] names
InitUrls ==
    \E file \in UrlFiles :
        LET cfg == [daita |-> "off", samples |-> 1, file |-> LoadConfig(PlainFile),
                    urllist |-> file]
            urls == ReadUrls(file)
            vpns == Prefix(RelayNames, 1)
            u2l == LoadUrls(urls)
            tree == FreshTree(vpns, u2l, DaitaModes(cfg))
            dd == LoadProgress(tree, vpns, u2l, DaitaModes(cfg))
        IN  /\ IF LoadUrlsExits(urls)
               THEN Exited(cfg)
               ELSE /\ program = "desktop"
                    /\ config = cfg
                    /\ vpn_server_list = vpns
                    /\ url2line = u2l
                    /\ disk = tree
                    /\ done_dict = dd
                    /\ accounts = <<>>
                    /\ allocated_accounts = <<>>
                    /\ pending_visits = InitVisitList(dd, vpns, u2l, cfg)
                    /\ unique_clients = {}
                    /\ last_update_time = 0
                    /\ last = NoReply
                    /\ tally = NoPosts
            /\ Quiet

\* the boot on each URL file and the requests that follow it
SpecUrls == InitUrls /\ [][DesktopNext]_vars

\* the directory of the cell get_free_sample is asked about
SampleDir == <<RelayNames[1], 0, "off">>

\* every set of .png and .pcap files with stems 0..MaxStem
SampleFiles == SUBSET {File(n, ext) : n \in 0..MaxStem, ext \in {"png", "pcap"}}

\* the DAITA coordinator with one cell directory holding any of SampleFiles
InitFreeSample ==
    /\ program = "daita"
    /\ config = [daita |-> "on", samples |-> MaxStem + 2]
    /\ vpn_server_list = Prefix(RelayNames, 1)
    /\ url2line = LoadUrls(Prefix(UrlNames, 1))
    /\ \E files \in SampleFiles : disk = (SampleDir :> files)
    /\ done_dict = <<>> /\ pending_visits = <<>>
    /\ accounts = <<>> /\ allocated_accounts = <<>>
    /\ unique_clients = {} /\ last_update_time = 0
    /\ last = NoReply /\ tally = NoPosts
    /\ Quiet

\* ubuntu_daita/server.py:182-189 called for the cell of SampleDir
get_free_sample ==
    /\ program = "daita"
    /\ last' = [op |-> "get_free_sample", status |-> 0,
                sample |-> GetFreeSample(disk, SampleDir)]
    /\ UNCHANGED <<program, config, vpn_server_list, url2line, accounts,
                   allocated_accounts, done_dict, pending_visits, unique_clients,
                   last_update_time, disk, tally, aux>>

\* get_free_sample applied to every directory content
SpecFreeSample == InitFreeSample /\ [][get_free_sample]_vars

\* the desktop coordinator stopped (or killed) between two requests and booted
\* again on the same data directory with the same configuration, any number
\* of times
RestartNext == DesktopNext \/ (restart /\ UNCHANGED aux)

SpecRestart == InitDesktop /\ [][RestartNext]_vars

----------------------------------------------------------------------------
(* Desktop coordinator: the handlers as steps of concurrent request threads *)

\* server.py:636: app.run serves every request in a thread of its own
Threads == {"t1", "t2"}

NoReq == [op |-> "none"]

\* pc: where the thread is in its handler; current_count, sample_num: the
\* locals of post_work; saved, full: history, the valid submissions this
\* thread answered 200 "Saved sample" and 200 "already has maximum"
IdleThread(saved, full) ==
    [pc |-> "idle", req |-> NoReq, current_count |-> 0, sample_num |-> 0,
     saved |-> saved, full |-> full]

\* the requests a thread may be given, for the one cell of the matrix, a
\* relay that is not configured, one worker
ThreadRequests ==
    {[op |-> "hello"], [op |-> "status"],
     [op |-> "setup", id |-> "w1"], [op |-> "setup", id |-> Missing],
     [op |-> "server", id |-> "w1", server |-> NoServer, daita |-> "off"],
     [op |-> "work", id |-> "w1", server |-> RelayNames[1], daita |-> "off"],
     [op |-> "work", id |-> "w1", server |-> NoServer, daita |-> "off"]}
    \cup [op : {"post"}, form : {"ok"}, url : {UrlNames[1]},
          vpn : {RelayNames[1], UnknownRelay}, daita : {"off"},
          pcap_size : {MinPcap, MinPcap - 1}, png_size : {MinPng}]
    \cup {[op |-> "post", form |-> "badhex", url |-> UrlNames[1], vpn |-> RelayNames[1],
           daita |-> "off", pcap_size |-> MinPcap, png_size |-> MinPng]}

\* the handler of a request as one step
Handle(req) ==
    CASE req.op = "hello" -> hello
      [] req.op = "status" -> get_status
      [] req.op = "setup" -> setup_client(req.id)
      [] req.op = "server" -> get_vpn_server(req.id, req.server, req.daita)
      [] req.op = "work" -> get_work(req.id, req.server, req.daita)
      [] req.op = "post" ->
            post_work(req.form, req.url, req.vpn, req.daita, req.pcap_size,
                      req.png_size, 3, FALSE)

\* the handler reaches its `with self.lock:` (server.py:333, 375, 416, 458,
\* 537): it did not return from the checks of the request before it
NeedsLock(req) ==
    CASE req.op = "hello" -> FALSE
      [] req.op = "status" -> TRUE
      [] req.op = "setup" -> req.id # Missing
      [] req.op = "server" ->
            req.id # Missing /\ req.server # Missing /\ req.daita # Missing
      [] req.op = "work" ->
            /\ req.id # Missing /\ req.server # Missing /\ req.daita # Missing
            /\ req.server # NoServer
      [] req.op = "post" ->
            req.form = "ok" /\ SizeCheck(req.pcap_size, req.png_size) = "ok"

\* the valid submissions the threads have taken in
RECURSIVE PostsTaken(_)
PostsTaken(T) ==
    IF T = {} THEN 0
    ELSE LET t == CHOOSE t \in T : TRUE
         IN  threads[t].saved + threads[t].full
               + (IF threads[t].req.op = "post" THEN 1 ELSE 0) + PostsTaken(T \ {t})

\* a thread is given a request and runs the handler up to its
\* `with self.lock:`, or to the return before it
enter(t, req) ==
    /\ program = "desktop"
    /\ threads[t].pc = "idle"
    /\ IF NeedsLock(req)
       THEN /\ req.op = "post" => PostsTaken(Threads) < MaxPosts
            /\ threads' = [threads EXCEPT ![t].pc = "wait", ![t].req = req]
            /\ UNCHANGED <<server_vars, lock, worker>>
       ELSE /\ Handle(req)
            /\ UNCHANGED <<lock, threads, worker>>

CanAcquireAlways(l) == TRUE

\* threading.Lock.acquire goes on iff the lock is not held
CanAcquire(l) == l = Free

\* `with self.lock:` is entered
acquire(t) ==
    /\ threads[t].pc = "wait"
    /\ CanAcquire(lock)
    /\ lock' = t
    /\ threads' = [threads EXCEPT ![t].pc = "locked"]
    /\ UNCHANGED <<server_vars, worker>>

LockAfterLeak(l, t, reply) == IF reply.status >= 400 THEN l ELSE Free

\* the `with` statement releases the lock however its body is left: by a
\* return, whatever the status, or by an exception
LockAfter(l, t, reply) == Free

\* the locked section of setup_client, get_status, get_vpn_server, get_work
\* (server.py:333-366, 375-398, 416-435, 458-485)
locked_get(t) ==
    /\ threads[t].pc = "locked"
    /\ threads[t].req.op # "post"
    /\ Handle(threads[t].req)
    /\ lock' = LockAfter(lock, t, last')
    /\ threads' = [threads EXCEPT ![t] = IdleThread(@.saved, @.full)]
    /\ UNCHANGED worker

\* server.py:537-546: the counter is read into current_count and compared
post_check(t) ==
    LET req == threads[t].req
    IN  /\ threads[t].pc = "locked"
        /\ req.op = "post"
        /\ IF req.vpn \notin DOMAIN done_dict \/ req.url \notin DOMAIN done_dict[req.vpn]
           THEN /\ last' = Refused(req.form, req.url, req.vpn, req.daita, req.pcap_size,
                                   req.png_size, 500, "exception")
                /\ lock' = LockAfter(lock, t, last')
                /\ threads' = [threads EXCEPT ![t] = IdleThread(@.saved, @.full)]
           ELSE LET current_count == Counter(done_dict, req.vpn, req.url, req.daita)
                IN  IF AlreadyDone(current_count, config.samples)
                    THEN /\ last' = Refused(req.form, req.url, req.vpn, req.daita,
                                            req.pcap_size, req.png_size, 200, "done")
                         /\ lock' = LockAfter(lock, t, last')
                         /\ threads' = [threads EXCEPT
                                           ![t] = IdleThread(@.saved, @.full + 1)]
                    ELSE /\ threads' = [threads EXCEPT ![t].pc = "write",
                                                       ![t].current_count = current_count]
                         /\ UNCHANGED <<last, lock>>
        /\ UNCHANGED <<program, config, vpn_server_list, url2line, accounts,
                       allocated_accounts, done_dict, pending_visits, unique_clients,
                       last_update_time, disk, tally, worker>>

\* server.py:548-563: the sample number is chosen and the three files are
\* written
post_write(t) ==
    LET req == threads[t].req
        d == <<req.vpn, url2line[req.url], DirMode(req.daita)>>
        sample_num == GetFreeSampleNum(disk, d)
    IN  /\ threads[t].pc = "write"
        /\ disk' = [disk EXCEPT ![d] = @ \cup Written(sample_num, 3)]
        /\ threads' = [threads EXCEPT ![t].pc = "count", ![t].sample_num = sample_num]
        /\ UNCHANGED <<program, config, vpn_server_list, url2line, accounts,
                       allocated_accounts, done_dict, pending_visits, unique_clients,
                       last_update_time, last, tally, lock, worker>>

\* server.py:565-585: the counter becomes current_count + 1, the cell leaves
\* the pending list when full, the lock is released and 200 is answered
post_count(t) ==
    LET req == threads[t].req
        r == RecordAccepted(done_dict, pending_visits, req.vpn, req.url, req.daita,
                            threads[t].current_count, config.samples)
    IN  /\ threads[t].pc = "count"
        /\ done_dict' = r.done
        /\ pending_visits' = r.pending
        /\ last_update_time' = last_update_time + 1
        /\ last' = PostReply(req.form, req.url, req.vpn, req.daita, req.pcap_size,
                             req.png_size, 200, "saved", threads[t].sample_num, 3, FALSE)
        /\ tally' = [tally EXCEPT !.accepted = @ + 1]
        /\ lock' = LockAfter(lock, t, last')
        /\ threads' = [threads EXCEPT ![t] = IdleThread(@.saved + 1, @.full)]
        /\ UNCHANGED <<program, config, vpn_server_list, url2line, accounts,
                       allocated_accounts, unique_clients, disk, worker>>

\* server.py:103-121 on a fresh data directory: one relay, one URL, mode
\* off, one credential or none; no thread is in a handler
InitThreads ==
    \E samples \in 1..2, na \in 0..1 :
        LET cfg == [daita |-> "off", samples |-> samples, file |-> LoadConfig(PlainFile)]
            vpns == Prefix(RelayNames, 1)
            u2l == LoadUrls(Prefix(UrlNames, 1))
            tree == FreshTree(vpns, u2l, DaitaModes(cfg))
            dd == LoadProgress(tree, vpns, u2l, DaitaModes(cfg))
        IN  /\ program = "desktop"
            /\ config = cfg
            /\ vpn_server_list = vpns
            /\ url2line = u2l
            /\ disk = tree
            /\ done_dict = dd
            /\ accounts = Prefix(AccountNames, na)
            /\ allocated_accounts = <<>>
            /\ pending_visits = InitVisitList(dd, vpns, u2l, cfg)
            /\ unique_clients = {}
            /\ last_update_time = 0
            /\ last = NoReply
            /\ tally = NoPosts
            /\ lock = Free
            /\ threads = [t \in Threads |-> IdleThread(0, 0)]
            /\ worker = <<>>

ThreadsNext ==
    \/ \E t \in Threads, req \in ThreadRequests : enter(t, req)
    \/ \E t \in Threads : acquire(t)
    \/ \E t \in Threads : locked_get(t)
    \/ \E t \in Threads : post_check(t)
    \/ \E t \in Threads : post_write(t)
    \/ \E t \in Threads : post_count(t)

\* the desktop coordinator serving requests in concurrent threads
SpecThreads == InitThreads /\ [][ThreadsNext]_vars

\* bound on the failed writes explored between the boots of the DAITA
\* coordinator: at most MaxDaitaFail stems that no counter accounts for
RestartBudget == Garbage < MaxDaitaFail

\* the DAITA coordinator on a fresh data directory with one relay, one URL
\* and no credential
InitDaitaRestart ==
    /\ InitDaita
    /\ Len(vpn_server_list) = 1
    /\ Cardinality(DOMAIN url2line) = 1
    /\ accounts = <<>>

\* the cells of the DAITA matrix
DaitaCells == [vpn : Range(vpn_server_list), url : DOMAIN url2line, daita : Range(BothModes)]

\* the submissions of well-formed samples, saved or failing, and the boots
DaitaRestartNext ==
    \/ \E c \in DaitaCells :
           daita_post("ok", c.url, c.vpn, c.daita, DaitaMinPcap, DaitaMinPng, 3, FALSE,
                      TRUE) /\ UNCHANGED aux
    \/ \E c \in DaitaCells, w \in FailedWrites :
           daita_post("ok", c.url, c.vpn, c.daita, DaitaMinPcap, DaitaMinPng,
                      w[1], w[2], RestartBudget) /\ UNCHANGED aux
    \/ status /\ UNCHANGED aux
    \/ daita_restart /\ UNCHANGED aux

\* the DAITA coordinator stopped and started again on its data directory
SpecDaitaRestart == InitDaitaRestart /\ [][DaitaRestartNext]_vars

----------------------------------------------------------------------------
(* Properties                                                              *)

\* the cells of the experiment matrix, as [url, vpn, daita] records
Cells ==
    {Visit(url, vpn, mode) : url \in DOMAIN url2line, vpn \in Range(vpn_server_list),
                             mode \in Range(DaitaModes(config))}

\* a cell is open iff its counter is below samples
Open(c) == done_dict[c.vpn][c.url][c.daita] < config.samples

\* the (relay, mode) pairs that have an open cell
OpenPairs == {<<c.vpn, c.daita>> : c \in {c \in Cells : Open(c)}}

\* the request last served carried all three arguments of GET /server, /work
AllSupplied == last.has_id /\ last.server # Missing /\ last.daita # Missing

\* C1 (I1, quota): in the desktop coordinator every counter of done_dict,
\* for every relay, URL and mode it holds, is between 0 and samples.
C1_Quota ==
    program = "desktop" =>
        \A vpn \in DOMAIN done_dict : \A url \in DOMAIN done_dict[vpn] :
            \A mode \in DOMAIN done_dict[vpn][url] :
                /\ 0 <= done_dict[vpn][url][mode]
                /\ done_dict[vpn][url][mode] <= config.samples

\* a cell is full (samples >= 2) and one more valid sample was just submitted
C1_Witness ==
    /\ program = "desktop"
    /\ config.samples >= 2
    /\ last.op = "post" /\ last.result = "done"
    /\ done_dict[last.vpn][last.url][last.daita] = config.samples

\* C2 (I2, pending correctness): in the desktop coordinator, at boot and after
\* every handler, pending_visits holds exactly the cells whose counter is below
\* samples: every open cell is in it and nothing else is.
C2_PendingCorrect ==
    program = "desktop" =>
        /\ \A c \in Cells : (c \in Range(pending_visits)) <=> Open(c)
        /\ Range(pending_visits) \subseteq Cells

\* a POST has just filled a cell while another cell is still open
C2_Witness ==
    /\ program = "desktop"
    /\ last.op = "post" /\ last.result = "saved"
    /\ ~Open(Visit(last.url, last.vpn, last.daita))
    /\ \E c \in Cells : Open(c)

\* C3 (I3, credential exclusivity): no credential is held by two worker
\* identities, and no allocated credential is still in the pool.
C3_Exclusive ==
    /\ \A w1, w2 \in DOMAIN allocated_accounts :
           allocated_accounts[w1] = allocated_accounts[w2] => w1 = w2
    /\ \A w \in DOMAIN allocated_accounts :
           allocated_accounts[w] \notin Range(accounts)

\* two workers hold a credential each
C3_Witness == Cardinality(DOMAIN allocated_accounts) = 2

\* C4 (L2, setup stickiness): a 200 reply of /setup records the credential it
\* returns as the worker's, a recorded credential never changes or goes away,
\* and /setup for a worker that has one answers 200 with that credential -
\* whatever request is served and also when the pool is empty.
C4_Sticky ==
    [][/\ \A w \in DOMAIN allocated_accounts :
              /\ w \in DOMAIN allocated_accounts'
              /\ allocated_accounts'[w] = allocated_accounts[w]
              /\ (last'.op = "setup" /\ last'.id = w) =>
                     (last'.status = 200 /\ last'.account = allocated_accounts[w])
       /\ (last'.op = "setup" /\ last'.status = 200) =>
              (/\ last'.id \in DOMAIN allocated_accounts'
               /\ allocated_accounts'[last'.id] = last'.account)]_vars

\* /setup answered 200 to a worker while the pool is empty and another worker
\* goes without a credential
C4_Witness ==
    /\ last.op = "setup" /\ last.status = 200
    /\ accounts = <<>>
    /\ allocated_accounts[last.id] = last.account
    /\ \E w \in Workers : w \notin DOMAIN allocated_accounts

\* C5 (I5, rotation): in the desktop coordinator, when more than one pair has
\* an open cell, GET /server does not return the pair the worker named as its
\* current one.
C5_Rotation ==
    (program = "desktop" /\ last.op = "server" /\ last.status = 200
        /\ Cardinality(OpenPairs) > 1)
    => <<last.vpn, last.mode>> # <<last.server, last.daita>>

\* GET /server answered a worker whose current pair is open, with others open
C5_Witness ==
    /\ program = "desktop" /\ last.op = "server" /\ last.status = 200
    /\ Cardinality(OpenPairs) > 1
    /\ <<last.server, last.daita>> \in OpenPairs

\* C6: in the desktop coordinator every pair GET /server returns with status
\* 200 has an open cell at the moment of the reply.
C6_AssignedOpen ==
    (program = "desktop" /\ last.op = "server" /\ last.status = 200)
    => <<last.vpn, last.mode>> \in OpenPairs

\* GET /server answered 200 while some pair of the matrix is closed
C6_Witness ==
    /\ program = "desktop" /\ last.op = "server" /\ last.status = 200
    /\ \E c \in Cells : <<c.vpn, c.daita>> \notin OpenPairs

\* C7 (last pair): in the desktop coordinator, when exactly one pair has an
\* open cell, GET /server with all arguments returns 200 and that pair.
C7_LastPair ==
    (program = "desktop" /\ last.op = "server" /\ AllSupplied
        /\ Cardinality(OpenPairs) = 1)
    => (last.status = 200 /\ <<last.vpn, last.mode>> \in OpenPairs)

\* the single open pair is the worker's current pair, in a matrix of several
C7_Witness ==
    /\ program = "desktop" /\ last.op = "server" /\ AllSupplied
    /\ OpenPairs = {<<last.server, last.daita>>}
    /\ \E c \in Cells : <<c.vpn, c.daita>> \notin OpenPairs

\* C8: in the DAITA coordinator GET /server with id and server answers 400
\* only when no pair has an open cell, and otherwise 200 with an open pair.
C8_DaitaServer ==
    (program = "daita" /\ last.op = "server" /\ last.has_id /\ last.server # Missing)
    => IF OpenPairs = {}
       THEN last.status = 400
       ELSE last.status = 200 /\ <<last.vpn, last.mode>> \in OpenPairs

\* C9: in the desktop coordinator GET /server with all arguments returns 400
\* iff pending_visits is empty, and otherwise 200 with a pair.
C9_ServerStatus ==
    (program = "desktop" /\ last.op = "server" /\ AllSupplied)
    => /\ last.status = 400 <=> pending_visits = <<>>
       /\ last.status # 400 =>
              (last.status = 200 /\ <<last.vpn, last.mode>> # NoPair)

\* GET /server with all arguments was refused
C9_Witness ==
    /\ program = "desktop" /\ last.op = "server" /\ AllSupplied
    /\ last.status = 400

\* C10 (I6, no cross-cell work): in the desktop coordinator a 200 reply of GET
\* /work?server=R&daita=M carries vpn = R, daita = M and a URL U of the list
\* whose cell (R, M, U) is open.
C10_WorkInCell ==
    (program = "desktop" /\ last.op = "work" /\ last.status = 200)
    => /\ last.vpn = last.server
       /\ last.mode = last.daita
       /\ Visit(last.url, last.vpn, last.mode) \in Cells
       /\ Open(Visit(last.url, last.vpn, last.mode))

\* GET /work answered 200 for a pair that has a closed cell too, in a matrix
\* with cells of another pair still open
C10_Witness ==
    /\ program = "desktop" /\ last.op = "work" /\ last.status = 200
    /\ \E c \in Cells : c.vpn = last.server /\ c.daita = last.daita /\ ~Open(c)
    /\ \E c \in Cells : <<c.vpn, c.daita>> # <<last.server, last.daita>> /\ Open(c)

\* the cell a POST names
PostCell(r) == Visit(r.url, r.vpn, r.daita)

\* the request is a POST with every field present and decodable hex
WellFormedPost(r) == r.op = "post" /\ r.form = "ok"

\* the sizes of the request pass the size check of the handler
SizeValid(r) == SizeCheck(r.pcap_size, r.png_size) = "ok"

\* the counter of a cell in a counter table
CounterOf(dd, c) == dd[c.vpn][c.url][c.daita]

\* C11: in the desktop coordinator GET /work with id, server and daita all
\* supplied answers 409 exactly when server is "None" or the pair (server,
\* daita) has no open cell, and 200 otherwise; 400 is answered only when an
\* argument is missing.
C11_WorkStatus ==
    (program = "desktop" /\ last.op = "work")
    => /\ AllSupplied =>
              /\ last.status \in {200, 409}
              /\ last.status = 409 <=>
                     (last.server = NoServer
                         \/ <<last.server, last.daita>> \notin OpenPairs)
       /\ last.status = 400 => ~AllSupplied

\* GET /work was answered 409 for a relay of the list whose other mode, or
\* another relay, still has open cells
C11_Witness ==
    /\ program = "desktop" /\ last.op = "work" /\ AllSupplied
    /\ last.status = 409
    /\ last.server \in Range(vpn_server_list)
    /\ OpenPairs # {}

\* C12 (L1, idempotent excess submit): in the desktop coordinator a size-valid
\* POST /work for a cell whose counter already equals samples answers 200,
\* writes no file and leaves every counter, the pending list and
\* last_update_time unchanged, however often it is repeated.
C12_ExcessSubmit ==
    [][(/\ program = "desktop"
        /\ WellFormedPost(last') /\ SizeValid(last')
        /\ PostCell(last') \in Cells
        /\ CounterOf(done_dict, PostCell(last')) = config.samples)
       => (/\ last'.status = 200
           /\ last'.written = 0
           /\ UNCHANGED <<disk, done_dict, pending_visits, last_update_time>>)]_vars

\* an excess sample of the largest size was refused while other cells are open
C12_Witness ==
    /\ program = "desktop"
    /\ last.op = "post" /\ last.result = "done"
    /\ last.pcap_size = MaxPcap
    /\ pending_visits # <<>>

\* C13 (accepted submission): in the desktop coordinator a size-valid POST
\* /work for an open cell whose three file writes succeed adds exactly 1 to
\* that cell's counter, changes no other counter, and removes the cell from
\* the pending list iff its counter has now reached samples.
C13_Accepted ==
    [][(/\ program = "desktop"
        /\ WellFormedPost(last') /\ SizeValid(last')
        /\ PostCell(last') \in Cells
        /\ Open(PostCell(last'))
        /\ ~last'.raised)
       => LET cell == PostCell(last')
          IN  /\ CounterOf(done_dict', cell) = CounterOf(done_dict, cell) + 1
              /\ \A c \in Cells \ {cell} :
                     CounterOf(done_dict', c) = CounterOf(done_dict, c)
              /\ cell \in Range(pending_visits)
              /\ (cell \notin Range(pending_visits'))
                     <=> (CounterOf(done_dict', cell) = config.samples)
              /\ Range(pending_visits') \ {cell} = Range(pending_visits) \ {cell}]_vars

\* a sample was accepted for a cell that stays open, next to a full cell
C13_Witness ==
    /\ program = "desktop"
    /\ last.op = "post" /\ last.status = 200 /\ last.written = 3
    /\ Open(PostCell(last))
    /\ \E c \in Cells : ~Open(c)

\* the directory of a cell
DirOf(c) == disk[<<c.vpn, url2line[c.url], c.daita>>]

\* the number of files with an extension in the directory of a cell
NumFiles(c, ext) == Cardinality(FilesWithExt(DirOf(c), ext))

\* C14 (I4, recovery agreement): in the desktop coordinator, after the boot
\* on a tree an earlier run left behind - failed three-file writes included -
\* every cell's counter equals the number of .pcap files in its directory.
C14_RecoveryPcap ==
    (program = "desktop" /\ last.op = "restart")
    => \A c \in Cells : CounterOf(done_dict, c) = NumFiles(c, "pcap")

C16_DiskAgreement ==
    program = "desktop" =>
        \A c \in Cells :
            /\ NumFiles(c, "pcap") = CounterOf(done_dict, c)
            /\ NumFiles(c, "png") = CounterOf(done_dict, c)
            /\ NumFiles(c, "json") = CounterOf(done_dict, c)

\* C17 (persistence failure): in the desktop coordinator, when a write of the
\* three sample files raises, POST /work answers 500, no counter advances,
\* the pending list keeps the cell and last_update_time is unchanged.
C17_WriteFails ==
    [][(program = "desktop" /\ last'.op = "post" /\ last'.raised)
       => (/\ last'.status = 500
           /\ UNCHANGED <<done_dict, pending_visits, last_update_time>>
           /\ PostCell(last') \in Cells =>
                  PostCell(last') \in Range(pending_visits'))]_vars

\* the write of a sample of a matrix cell raised after two files
C17_Witness ==
    /\ program = "desktop"
    /\ last.op = "post" /\ last.raised /\ last.written = 2
    /\ PostCell(last) \in Cells

\* the reply is not one of the two size refusals
PassedSizeCheck(r) == r.result # "size"

\* C18 (size bounds): in the desktop coordinator a POST /work with
\* all fields present and decodable hex passes the size check iff
\* 10 KiB <= |pcap| <= 3 MiB and |png| >= 10 KiB, both pcap bounds inclusive.
C18_SizeBounds ==
    (program = "desktop" /\ WellFormedPost(last))
    => (PassedSizeCheck(last)
           <=> (/\ 10 * 1024 <= last.pcap_size
                /\ last.pcap_size <= 3 * 1024 * 1024
                /\ last.png_size >= 10 * 1024))

\* the sizes of the request are outside the bounds of the handler
OutOfBounds(r) ==
    \/ r.pcap_size < 10 * 1024
    \/ r.pcap_size > 3000 * 1024
    \/ r.png_size < 10 * 1024

\* C19 (silent size reject): in the desktop coordinator a POST /work whose
\* pcap or png is outside the size bounds answers 200, writes no file, changes
\* no counter, the pending list or last_update_time; an open cell stays open.
C19_SilentReject ==
    [][(program = "desktop" /\ WellFormedPost(last') /\ OutOfBounds(last'))
       => (/\ last'.status = 200
           /\ last'.written = 0
           /\ UNCHANGED <<disk, done_dict, pending_visits, last_update_time>>
           /\ (PostCell(last') \in Cells /\ Open(PostCell(last')))
                  => PostCell(last') \in Range(pending_visits'))]_vars

\* a sample whose png is one byte short was sent for an open cell
C19_Witness ==
    /\ program = "desktop"
    /\ last.op = "post" /\ last.form = "ok"
    /\ last.png_size = 10 * 1024 - 1
    /\ PostCell(last) \in Cells /\ Open(PostCell(last))

\* C20 (pool exhaustion): /setup for a worker that holds no credential while
\* the pool is empty answers 400 without creating an entry for the worker, a
\* worker that holds one gets 200 with it, and neither changes the pool or
\* the allocation map - in both coordinators.
C20_PoolEmpty ==
    [][(last'.op = "setup" /\ last'.id # Missing /\ accounts = <<>>)
       => (/\ UNCHANGED <<accounts, allocated_accounts>>
           /\ IF last'.id \in DOMAIN allocated_accounts
              THEN /\ last'.status = 200
                   /\ last'.account = allocated_accounts[last'.id]
              ELSE /\ last'.status = 400
                   /\ last'.id \notin DOMAIN allocated_accounts')]_vars

\* /setup was refused to a worker after the last credential went to another
C20_Witness ==
    /\ last.op = "setup" /\ last.status = 400 /\ last.id # Missing
    /\ accounts = <<>>
    /\ allocated_accounts # <<>>
    /\ last.id \notin DOMAIN allocated_accounts

----------------------------------------------------------------------------
(* Claims C21..C30                                                         *)

\* the directory a POST names, as a key of disk
PostDir(r) == <<r.vpn, url2line[r.url], DirMode(r.daita)>>

\* the POST wrote at least one file
Wrote(r) == r.op = "post" /\ r.written > 0

\* C21 (write-once, collision-free numbering): in the desktop coordinator a
\* handler deletes no file and no directory, every file it creates has a stem
\* that no file of the directory had, and the sample number of a POST that
\* writes is the stem of no file already in the cell's directory.
C21_WriteOnce ==
    [][program = "desktop"
       => (/\ DOMAIN disk \subseteq DOMAIN disk'
           /\ \A d \in DOMAIN disk :
                  /\ disk[d] \subseteq disk'[d]
                  /\ \A f \in disk'[d] \ disk[d] : f.stem \notin Stems(disk[d])
           /\ Wrote(last') => (/\ last'.sample \notin Stems(disk[PostDir(last')])
                               /\ last'.sample \in Stems(disk'[PostDir(last')])))]_vars

\* a sample was saved into a directory that already held an earlier one
C21_Witness ==
    /\ program = "desktop"
    /\ Wrote(last) /\ last.status = 200
    /\ last.sample > 0
    /\ Cardinality(Stems(disk[PostDir(last)])) > 1

\* C22 (resume after restart): right after the desktop coordinator booted on
\* the data directory of an earlier run, the pending list holds exactly the
\* cells of the matrix whose recovered counter is below samples.
C22_Resume ==
    last.op = "restart"
        => /\ Range(pending_visits) \subseteq Cells
           /\ \A c \in Cells :
                  c \in Range(pending_visits) <=> CounterOf(done_dict, c) < config.samples

\* the boot found one cell full and another one still open
C22_Witness ==
    /\ last.op = "restart"
    /\ \E c \in Cells : CounterOf(done_dict, c) >= config.samples
    /\ \E c \in Cells : /\ CounterOf(done_dict, c) < config.samples
                         /\ CounterOf(done_dict, c) > 0

\* the step moved exactly one credential from the pool to the worker the
\* reply r is for, who held none
MovesOne(r) ==
    /\ r.id \notin DOMAIN allocated_accounts
    /\ DOMAIN allocated_accounts' = DOMAIN allocated_accounts \cup {r.id}
    /\ \A w \in DOMAIN allocated_accounts : allocated_accounts'[w] = allocated_accounts[w]
    /\ allocated_accounts'[r.id] = r.account
    /\ Len(accounts') = Len(accounts) - 1
    /\ Range(accounts') = Range(accounts) \ {r.account}
    /\ r.account \in Range(accounts)

\* C24 (read-only GETs): in the desktop coordinator GET /, /setup, /server,
\* /status and GET /work change no file, counter, pending visit or
\* last_update_time; /server and GET /work at most add one worker id, and only
\* of a request that carried one, to unique_clients, which the others leave
\* alone; /setup at most moves one credential from the pool to the worker,
\* and the others leave the pool and the allocation map alone.
C24_ReadOnlyGets ==
    [][(program = "desktop" /\ last'.op \in {"hello", "setup", "server", "status", "work"})
       => (/\ UNCHANGED <<disk, done_dict, pending_visits, last_update_time>>
           /\ IF last'.op \in {"server", "work"}
              THEN /\ unique_clients \subseteq unique_clients'
                   /\ Cardinality(unique_clients' \ unique_clients) <= 1
                   /\ unique_clients' # unique_clients => last'.has_id
              ELSE UNCHANGED unique_clients
           /\ IF last'.op = "setup"
              THEN UNCHANGED <<accounts, allocated_accounts>> \/ MovesOne(last')
              ELSE UNCHANGED <<accounts, allocated_accounts>>)]_vars

\* /setup handed a credential to a second worker while a worker was known
\* from /server or GET /work
C24_Witness ==
    /\ program = "desktop"
    /\ last.op = "setup" /\ last.status = 200
    /\ Cardinality(DOMAIN allocated_accounts) = 2
    /\ unique_clients # {}

\* the loaded configuration sets every key of the timing and client sections
SetsAll(cfg) == TimingKeys \subseteq DOMAIN cfg["timing"] /\ ClientKeys \subseteq DOMAIN cfg["client"]

\* C25 (config pass-through): every 200 reply of the desktop /setup carries
\* grace, min_wait, max_wait, post_browser_pre_capture_wait and
\* post_packet_pre_visit_wait as the timing section sets them and display_size
\* and fullscreen as the client section sets them.
C25_PassThrough ==
    (program = "desktop" /\ last.op = "setup" /\ last.status = 200 /\ SetsAll(config.file))
        => /\ \A k \in TimingKeys : last.payload[k] = config.file["timing"][k]
           /\ \A k \in ClientKeys : last.payload[k] = config.file["client"][k]

\* C30 (validation order): the desktop POST /work answers 400 to a form with
\* a missing field or undecodable hex data whatever its sizes and its cell,
\* and 200 without saving to a well-formed form whose sizes are out of bounds
\* whatever its cell - unknown, full or open; none of the three changes a
\* counter, the pending list, a file or last_update_time.
C30_ValidationOrder ==
    [][(program = "desktop" /\ last'.op = "post")
       => (/\ last'.form \in {"missing", "badhex"}
                 => last'.status = 400 /\ last'.result = "bad"
           /\ (last'.form = "ok" /\ OutOfBounds(last'))
                 => last'.status = 200 /\ last'.result = "size"
           /\ (last'.form # "ok" \/ OutOfBounds(last'))
                 => (/\ last'.written = 0
                     /\ UNCHANGED <<done_dict, pending_visits, disk,
                                    last_update_time>>))]_vars

\* undecodable hex data were sent for a full cell, with a pcap that is too
\* small as well
C30_Witness ==
    /\ program = "desktop"
    /\ last.op = "post" /\ last.form = "badhex" /\ OutOfBounds(last)
    /\ PostCell(last) \in Cells /\ ~Open(PostCell(last))
    /\ last.status = 400

\* the pcs of a thread inside a `with self.lock:`
LockedPcs == {"locked", "write", "count"}

RECURSIVE SumThreads(_, _)
SumThreads(T, field) ==
    IF T = {} THEN 0
    ELSE LET t == CHOOSE t \in T : TRUE
         IN  threads[t][field] + SumThreads(T \ {t}, field)

\* the one cell of the matrix the threads submit samples for
TheCell == Visit(UrlNames[1], RelayNames[1], "off")

\* C28 (serialised submissions): of the valid submissions for one cell that
\* concurrent threads of the desktop coordinator have answered, exactly
\* min(their number, samples) were accepted and the others were answered 200
\* "already has maximum"; the accepted ones have pairwise distinct sample
\* numbers and exactly as many .png, .pcap and .json files are in the cell's
\* directory.  (From a quiescent counter c, n more submissions therefore add
\* exactly min(n, samples - c).)
C28_Serialised ==
    program = "desktop" /\ threads # <<>>
        => LET saved == SumThreads(Threads, "saved")
               full == SumThreads(Threads, "full")
               writing == {t \in Threads : threads[t].pc = "count"}
           IN  /\ saved = Min(saved + full, config.samples)
               /\ tally.accepted = saved
               /\ Cardinality(Stems(DirOf(TheCell))) = saved + Cardinality(writing)
               /\ \A ext \in Range(WriteOrder) :
                      NumFiles(TheCell, ext) = saved + Cardinality(writing)
               /\ writing = {} => CounterOf(done_dict, TheCell) = saved

\* two threads submitted samples for the cell's last free sample: one was
\* accepted, the other one was just answered "already has maximum" while the
\* first one waits for the lock with one more sample
C28_Witness ==
    /\ program = "desktop" /\ threads # <<>>
    /\ SumThreads(Threads, "saved") = config.samples
    /\ \E t \in Threads : threads[t].full > 0 /\ threads[t].saved = 0
    /\ \E t \in Threads : /\ threads[t].saved > 0 /\ threads[t].full = 0
                           /\ threads[t].pc = "wait" /\ threads[t].req.op = "post"
    /\ last.op = "post" /\ last.result = "done"

\* C29 (lock discipline): in the desktop coordinator at most one thread is
\* inside a `with self.lock:` section and it is the holder of the lock; the
\* counters, the pending list, the pool, the allocation map, last_update_time,
\* unique_clients and the files change only in a step of the thread that
\* holds the lock; and the lock is held by no thread that has left its
\* section, whatever the status or exception it left with.
C29_LockDiscipline ==
    [][threads # <<>>
       => (/\ Cardinality({t \in Threads : threads'[t].pc \in LockedPcs}) <= 1
           /\ \A t \in Threads : threads'[t].pc \in LockedPcs <=> lock' = t
           /\ <<accounts, allocated_accounts, done_dict, pending_visits, unique_clients,
                 last_update_time, disk>>' #
              <<accounts, allocated_accounts, done_dict, pending_visits, unique_clients,
                last_update_time, disk>>
                 => (lock \in Threads /\ threads[lock].pc \in LockedPcs
                     /\ threads'[lock] # threads[lock]))]_vars

\* a thread waits for the lock while another one is inside POST /work after
\* a request was answered 500 inside the locked section
C29_Witness ==
    /\ threads # <<>>
    /\ \E t \in Threads : threads[t].pc = "wait"
    /\ \E t \in Threads : threads[t].pc = "write" /\ lock = t
    /\ last.op = "post" /\ last.status = 500

\* C26 (409 makes the worker rotate): a desktop worker whose GET /work was
\* answered 409 sends GET /server, with its current relay and mode, before it
\* sends GET /work again: it is never about to send GET /work while a 409 is
\* not yet followed by a GET /server.
C26_RotateOn409 ==
    [][(program = "desktop" /\ worker # <<>>)
       => (/\ worker'.pc = "loop" => ~worker'.owes
           /\ (worker'.owes /\ ~worker.owes)
                 => (/\ worker.pc = "loop" /\ worker'.pc = "rotate"
                     /\ last'.op = "work" /\ last'.status = 409)
           /\ (worker.pc = "rotate" /\ last' # last)
                 => (/\ last'.op = "server"
                     /\ last'.server = ServerParam(worker)
                     /\ last'.daita = worker.daita))]_vars

\* the worker is back at GET /work with another relay after a 409
C26_Witness ==
    /\ program = "desktop" /\ worker # <<>>
    /\ worker.pc = "loop"
    /\ last.op = "server" /\ last.status = 200
    /\ last.server # NoServer /\ last.server # Missing
    /\ worker.current_server = last.vpn
    /\ last.vpn # last.server
    /\ TotalCollected(done_dict) > 0

\* C27 (visits per connection, DAITA worker): the worker makes at most
\* visit_count visits over one VPN connection, and a GET /server that failed
\* leaves current_visit_count as it was.
C27_VisitsPerConnection ==
    [][worker # <<>>
       => (/\ worker'.conn_visits <= VisitCount
           /\ (worker.pc \in {"nowork", "rotate"} /\ worker'.pc # worker.pc
                  /\ ~worker'.rotated)
                 => worker'.current_visit_count = worker.current_visit_count)]_vars

\* C23 (DAITA recovery): right after the DAITA coordinator booted on a data
\* directory that setup_datadir accepted, the counter of every cell is the
\* number of .pcap files of the cell's directory.
C23_RecoveredPcap ==
    (program = "daita" /\ last.op = "restart")
        => \A c \in Cells : CounterOf(done_dict, c) = NumFiles(c, "pcap")

----------------------------------------------------------------------------
(* Claims C31..C39                                                         *)

\* C31 (unknown cell): in the desktop coordinator a POST /work with every
\* field present, decodable hex and valid sizes that names a relay, a mode
\* or a URL outside the experiment matrix writes no file and changes neither
\* the counter table (no new entry, no changed counter) nor the pending list.
C31_UnknownCell ==
    [][(/\ program = "desktop" /\ WellFormedPost(last') /\ SizeValid(last')
        /\ PostCell(last') \notin Cells)
       => (/\ last'.written = 0
           /\ UNCHANGED <<done_dict, pending_visits, disk>>)]_vars

\* C32 (monotone progress): during a run of the desktop coordinator no
\* request decreases a counter of the counter table, no cell that is not
\* pending becomes pending, and the pending list never grows.
C32_Monotone ==
    [][program = "desktop"
       => (/\ \A c \in Cells : CounterOf(done_dict', c) >= CounterOf(done_dict, c)
           /\ \A c \in Cells : c \notin Range(pending_visits)
                                  => c \notin Range(pending_visits')
           /\ Len(pending_visits') <= Len(pending_visits))]_vars

\* an accepted sample has just filled its cell, which left the pending list,
\* while another cell is still pending
C32_Witness ==
    /\ program = "desktop"
    /\ last.op = "post" /\ last.result = "saved"
    /\ PostCell(last) \in Cells /\ PostCell(last) \notin Range(pending_visits)
    /\ pending_visits # <<>>

\* the credentials held by the allocation map
Held(allocated) == {allocated[w] : w \in DOMAIN allocated}

\* C33 (credential lifecycle and conservation): in the desktop coordinator a
\* step changes the pool only by popping its last credential into a new entry
\* of the allocation map; an entry is never changed or removed; no credential
\* is in two entries or in an entry and in the pool; and |pool| + |allocated|
\* stays what it was at boot, when the map was empty.
C33_Credentials ==
    [][program = "desktop"
       => (/\ \A w \in DOMAIN allocated_accounts :
                 /\ w \in DOMAIN allocated_accounts'
                 /\ allocated_accounts'[w] = allocated_accounts[w]
           /\ Len(accounts') + Cardinality(DOMAIN allocated_accounts')
                 = Len(accounts) + Cardinality(DOMAIN allocated_accounts)
           /\ Range(accounts') \subseteq Range(accounts)
           /\ Range(accounts') \cap Held(allocated_accounts') = {}
           /\ Cardinality(Held(allocated_accounts'))
                 = Cardinality(DOMAIN allocated_accounts')
           /\ accounts' # accounts
                 => (/\ last'.op = "setup" /\ last'.status = 200
                     /\ accounts = Append(accounts', last'.account)
                     /\ last'.id \notin DOMAIN allocated_accounts
                     /\ allocated_accounts'[last'.id] = last'.account))]_vars

\* two workers hold the two credentials of the database and one of them asked
\* again
C33_Witness ==
    /\ program = "desktop"
    /\ last.op = "setup" /\ last.status = 200
    /\ Cardinality(DOMAIN allocated_accounts) = 2
    /\ accounts = <<>>

\* C34 (eventual completion): in the desktop coordinator, when every write
\* succeeds and one worker keeps following the protocol, the pending list
\* eventually becomes empty with every cell's counter at samples.
C34_Completes ==
    <>(/\ pending_visits = <<>>
       /\ \A c \in Cells : CounterOf(done_dict, c) = config.samples)

\* the sample of the worker's task has just filled the last open cell
C34_Witness ==
    /\ program = "desktop" /\ worker # <<>>
    /\ worker.pc = "work"
    /\ last.op = "post" /\ last.result = "saved"
    /\ pending_visits = <<>>
    /\ TotalCollected(done_dict) >= 4

\* C35 (completion is stable): in the desktop coordinator, once the pending
\* list is empty it stays empty, a GET /server with all its arguments answers
\* 400, a GET /work with all its arguments answers 409, a well-formed,
\* size-valid POST /work for a cell of the matrix gets the 200 reply of a
\* full cell, and no request changes a counter or a file.
C35_StableCompletion ==
    [][(program = "desktop" /\ pending_visits = <<>>)
       => (/\ pending_visits' = <<>>
           /\ (last'.op \in {"server", "work"} /\ last'.has_id
                  /\ last'.server # Missing /\ last'.daita # Missing)
                 => last'.status = IF last'.op = "server" THEN 400 ELSE 409
           /\ (WellFormedPost(last') /\ SizeValid(last') /\ PostCell(last') \in Cells)
                 => last'.status = 200 /\ last'.result = "done"
           /\ UNCHANGED <<done_dict, disk>>)]_vars

\* the sum of the counters of a set of cells
RECURSIVE SumCounters(_, _)
SumCounters(dd, S) ==
    IF S = {} THEN 0
    ELSE LET c == CHOOSE c \in S : TRUE
         IN  CounterOf(dd, c) + SumCounters(dd, S \ {c})

\* C36 (status accounting): in the desktop coordinator /status reports
\* total_collected equal to the sum of the counters of all cells and
\* total_to_collect equal to samples * |URLs| * |relays| * |modes|;
\* total_collected is at most total_to_collect, and equal to it exactly when
\* the pending list is empty.
C36_StatusAccounting ==
    (program = "desktop" /\ last.op = "status")
    => (/\ last.total_collected = SumCounters(done_dict, Cells)
        /\ last.total_to_collect
             = config.samples * Cardinality(DOMAIN url2line) * Len(vpn_server_list)
                 * Len(DaitaModes(config))
        /\ last.total_collected <= last.total_to_collect
        /\ (last.total_collected = last.total_to_collect <=> pending_visits = <<>>))

\* C37 (submission matches assignment): every sample the desktop worker POSTs
\* names the URL of its task and the (relay, mode) pair under which GET /work
\* handed that task out.
C37_PostMatchesTask ==
    [][(program = "desktop" /\ worker # <<>> /\ worker.pc = "post"
           /\ worker'.pc = "loop")
       => (/\ last'.op = "post"
           /\ last'.url = worker.task.url
           /\ last'.vpn = worker.task.vpn
           /\ last'.daita = worker.task.daita)]_vars

\* the URLs of the list: the non-blank lines of the file, stripped
ListedUrls == {Strip(config.urllist[i]) : i \in DOMAIN config.urllist} \ {""}

\* the same stripped line stands on two lines of the file
ListsTwice ==
    \E i, j \in DOMAIN config.urllist :
        i # j /\ Strip(config.urllist[i]) = Strip(config.urllist[j])
              /\ Strip(config.urllist[i]) # ""

\* C38 (URL index bijection): after a successful boot of the desktop
\* coordinator url2line is defined exactly on the URLs of the list and maps
\* distinct URLs to distinct integers of 0..|URLs|-1; no request changes it;
\* and the boot ends without a coordinator when the list holds a URL twice or
\* a URL that does not start with https://.
C38_UrlIndex ==
    /\ [](program = "desktop"
            => (/\ DOMAIN url2line = ListedUrls
                /\ \A u \in ListedUrls : url2line[u] \in 0..(Cardinality(ListedUrls) - 1)
                /\ \A u, v \in ListedUrls : u # v => url2line[u] # url2line[v]))
    /\ []((ListsTwice \/ "http://c.test" \in ListedUrls) => program = "exited")
    /\ [][url2line' = url2line]_vars

\* the coordinator booted on a file of two URLs with a blank line, and saved
\* a sample of the second URL
C38_Witness ==
    /\ program = "desktop"
    /\ Len(config.urllist) = 3 /\ Cardinality(ListedUrls) = 2
    /\ last.op = "post" /\ last.result = "saved"
    /\ url2line[last.url] = 1

\* C39 (DAITA sample numbering): get_free_sample returns the smallest
\* non-negative integer N for which N.png is not in the cell directory,
\* whatever files the directory holds.
C39_SmallestFree ==
    (program = "daita" /\ last.op = "get_free_sample")
    => (/\ last.sample \in Nat
        /\ File(last.sample, "png") \notin disk[SampleDir]
        /\ \A n \in 0..(last.sample - 1) : File(n, "png") \in disk[SampleDir])

\* the directory holds 0.png and 2.png but not 1.png, and a higher .pcap
C39_Witness ==
    /\ program = "daita" /\ last.op = "get_free_sample"
    /\ File(0, "png") \in disk[SampleDir] /\ File(2, "png") \in disk[SampleDir]
    /\ File(1, "png") \notin disk[SampleDir] /\ File(3, "pcap") \in disk[SampleDir]
    /\ last.sample = 1
====
